---- MODULE Spec2Model ----
(***************************************************************************)
(* A model of HyperTabs' stateful cores:                                   *)
(*   - KeybindManager (src/src/lib/keybinds.ts), the leader-key sequence   *)
(*     matcher, and                                                        *)
(*   - the harpoon slot registry (lib/harpoon), over the storage layer     *)
(*     (src/src/lib/storage.ts) and the tabs wrapper (lib/tabs),           *)
(* and of the workspace registry (src/src/lib/workspaces.ts).              *)
(***************************************************************************)
EXTENDS Integers, Sequences, FiniteSets, TLC

VARIABLES
    \* KeybindManager fields
    currentSequence,   \* this.currentSequence : sequence of key names
    sequenceTimeout,   \* this.sequenceTimeout : timer id, NoTimeout for null
    keybinds,          \* this.keybinds        : sequence of KeybindDef
    enabled,           \* this.enabled
    \* the page the matcher runs in
    timers,            \* pending setTimeout timers : id -> ms left
    shown,             \* last argument given to onSequenceUpdate
    elapsed,           \* ms since the last keystroke that extended the sequence,
                       \* counted up to SEQUENCE_TIMEOUT
    \* what the last operation on the matcher was, saw and did
    last,
    \* a run of keys fed to a matcher since its construction
    feedTarget,        \* 0: any key may be fed; i > 0: the keys of binding i are fed
    fedCount,          \* keys fed so far (scripted run)
    feedEmitted,       \* actions emitted since construction
    firstFed,          \* name of the first key fed since construction ("" if none)
    leaderFed,         \* a Space key has been fed since construction
    everConsumed,      \* some event since construction was reported consumed
    \* chrome.storage.local
    harpoon,           \* what get('harpoon') returns : HarpoonState
    reopenClosed,      \* settings.harpoonReopenClosed
    \* the browser
    tabs,              \* open tabs : tab id -> [url, title, windowId]
    nextTabId,         \* id the next tab created gets
    activeTab,         \* id of the active tab, NoTab if none
    \* calls of harpoon functions in the background context
    calls,             \* call frame of each caller
    \* workspaces (lib/workspaces)
    workspaces,        \* what get('workspaces') returns : WorkspaceState
    generated,         \* ids generateId has handed out
    wsCalls            \* call frame of each caller of a workspace function

keyVars  == <<currentSequence, sequenceTimeout, keybinds, enabled, timers, shown, elapsed>>
feedVars == <<feedTarget, fedCount, feedEmitted, firstFed, leaderFed, everConsumed>>
harpoonVars == <<harpoon, reopenClosed, tabs, nextTabId, activeTab, calls>>
wsVars   == <<workspaces, generated, wsCalls>>
vars     == <<keyVars, last, feedVars, harpoonVars, wsVars>>

NULL == "null"

-----------------------------------------------------------------------------
(* Bounds *)

\* longest key sequence of a binding in the tables explored
MaxSeqLen == 2

\* keys typed in a free run
MaxFeed == 3

\* tabs ever opened in the browser
MaxTabs == 2

-----------------------------------------------------------------------------
(* Strings *)

\* String.prototype.toLowerCase on the strings of the model
ToLowerCase(s) ==
    CASE s = "Space"    -> "space"
      [] s = "SPACE"    -> "space"
      [] s = "Escape"   -> "escape"
      [] s = "H"        -> "h"
      [] s = "INPUT"    -> "input"
      [] s = "TEXTAREA" -> "textarea"
      [] s = "SELECT"   -> "select"
      [] s = "DIV"      -> "div"
      [] OTHER          -> s

\* strings of length 1, and those of them /[a-zA-Z0-9]/ accepts
OneChar   == {" ", "/", "h", "H"}
AlnumChar == {"h", "H"}

-----------------------------------------------------------------------------
(* Keyboard events and their targets *)

\* KeyboardEvent: the Space bar, h, Shift+h, Escape, a bare Shift, a slash
KeyEvents ==
    { [code |-> "Space",     key |-> " "],
      [code |-> "KeyH",      key |-> "h"],
      [code |-> "KeyH",      key |-> "H"],
      [code |-> "Escape",    key |-> "Escape"],
      [code |-> "ShiftLeft", key |-> "Shift"],
      [code |-> "Slash",     key |-> "/"] }

\* event.target: tagName and isContentEditable
Targets ==
    { [tagName |-> "DIV",      isContentEditable |-> FALSE],
      [tagName |-> "INPUT",    isContentEditable |-> FALSE],
      [tagName |-> "TEXTAREA", isContentEditable |-> FALSE],
      [tagName |-> "SELECT",   isContentEditable |-> FALSE],
      [tagName |-> "DIV",      isContentEditable |-> TRUE] }

PageBody == [tagName |-> "DIV", isContentEditable |-> FALSE]

IsInputElementNoSelect(element) ==
    LET tagName == ToLowerCase(element.tagName)
        isInput == tagName = "input" \/ tagName = "textarea"
    IN  isInput \/ element.isContentEditable

IsInputElement(element) ==
    LET tagName == ToLowerCase(element.tagName)
        isInput == tagName = "input" \/ tagName = "textarea" \/ tagName = "select"
    IN  isInput \/ element.isContentEditable

\* getKeyName without the letter-or-digit test
GetKeyNameAnyChar(event) ==
    IF event.code = "Space" THEN "Space"
    ELSE IF event.key = "Escape" THEN "Escape"
    ELSE IF event.key \in OneChar THEN ToLowerCase(event.key)
    ELSE NULL

GetKeyName(event) ==
    IF event.code = "Space" THEN "Space"
    ELSE IF event.key = "Escape" THEN "Escape"
    ELSE IF event.key \in OneChar /\ event.key \in AlnumChar
         THEN ToLowerCase(event.key)
    ELSE NULL

-----------------------------------------------------------------------------
(* Binding tables *)

KeybindActions == <<"openHyperTabs", "harpoonAdd">>

\* key names a binding is written with, as typed and in upper case
BindingKeys == {"Space", "h"}

UpperKey(k) == IF k = "h" THEN "H" ELSE "SPACE"

RECURSIVE SeqsUpTo(_, _)
SeqsUpTo(S, n) ==
    IF n = 0 THEN {<<>>}
    ELSE LET shorter == SeqsUpTo(S, n - 1)
         IN  shorter \cup {Append(s, x) : s \in {t \in shorter : Len(t) = n - 1}, x \in S}

BindingSequences == SeqsUpTo(BindingKeys, MaxSeqLen) \ {<<>>}

UpperSequence(s) == [i \in 1..Len(s) |-> UpperKey(s[i])]

\* tables of one or two bindings; the i-th binding carries the i-th action
LowerTables ==
    { <<[sequence |-> s, action |-> KeybindActions[1]]>> : s \in BindingSequences }
    \cup
    { <<[sequence |-> s, action |-> KeybindActions[1]],
        [sequence |-> t, action |-> KeybindActions[2]]>> :
          s \in BindingSequences, t \in BindingSequences }

UpperTable(tbl) ==
    [i \in 1..Len(tbl) |-> [tbl[i] EXCEPT !.sequence = UpperSequence(@)]]

BindingTables == LowerTables \cup {UpperTable(tbl) : tbl \in LowerTables}

-----------------------------------------------------------------------------
(* Timers of the page: setTimeout / clearTimeout *)

SEQUENCE_TIMEOUT == 1000

\* this.sequenceTimeout = null
NoTimeout == 0

\* how far the clock may advance in one step, ms
ClockSteps == {500, 1000}

ClearTimeout(tm, id) == [i \in (DOMAIN tm) \ {id} |-> tm[i]]

\* the id setTimeout returns: one no pending timer has
NewTimerId(tm) ==
    CHOOSE i \in 1..(Cardinality(DOMAIN tm) + 1) :
        /\ i \notin DOMAIN tm
        /\ \A j \in 1..(i - 1) : j \in DOMAIN tm

SetTimeout(tm, id, ms) == [i \in (DOMAIN tm) \cup {id} |-> IF i = id THEN ms ELSE tm[i]]

-----------------------------------------------------------------------------
(* KeybindManager.  m is the matcher with the page's timers:               *)
(*   [currentSequence, sequenceTimeout, timers, shown]                     *)

Matcher == [currentSequence |-> currentSequence, sequenceTimeout |-> sequenceTimeout,
            timers |-> timers, shown |-> shown]

SequencesMatchCaseSensitive(a, b) ==
    /\ Len(a) = Len(b)
    /\ \A i \in 1..Len(a) : a[i] = b[i]

SequencesMatch(a, b) ==
    /\ Len(a) = Len(b)
    /\ \A i \in 1..Len(a) : ToLowerCase(a[i]) = ToLowerCase(b[i])

IsPartialMatch(keybind, current) ==
    /\ Len(current) < Len(keybind)
    /\ \A i \in 1..Len(current) : ToLowerCase(current[i]) = ToLowerCase(keybind[i])

\* the loop of findMatch over the bindings from index i on
RECURSIVE FindMatchFrom(_, _, _, _)
FindMatchFrom(kbs, current, i, hasPartial) ==
    IF i > Len(kbs) THEN (IF hasPartial THEN "partial" ELSE "none")
    ELSE IF SequencesMatch(kbs[i].sequence, current) THEN "exact"
    ELSE FindMatchFrom(kbs, current, i + 1,
                       hasPartial \/ IsPartialMatch(kbs[i].sequence, current))

\* a classification that keeps building while a longer binding is possible
FindMatchPartialWins(kbs, current) ==
    IF \E i \in 1..Len(kbs) : IsPartialMatch(kbs[i].sequence, current) THEN "partial"
    ELSE IF \E i \in 1..Len(kbs) : SequencesMatch(kbs[i].sequence, current) THEN "exact"
    ELSE "none"

\* a classification with no dead end
FindMatchNeverNone(kbs, current) ==
    IF \E i \in 1..Len(kbs) : SequencesMatch(kbs[i].sequence, current) THEN "exact"
    ELSE "partial"

FindMatch(kbs, current) == FindMatchFrom(kbs, current, 1, FALSE)

\* Array.prototype.find: the index of the first binding whose sequence
\* matches, 0 for undefined
FindKeybindLast(kbs, current) ==
    LET hits == {i \in 1..Len(kbs) : SequencesMatch(kbs[i].sequence, current)}
    IN  IF hits = {} THEN 0
        ELSE CHOOSE i \in hits : \A j \in hits : j <= i

FindKeybind(kbs, current) ==
    LET hits == {i \in 1..Len(kbs) : SequencesMatch(kbs[i].sequence, current)}
    IN  IF hits = {} THEN 0
        ELSE CHOOSE i \in hits : \A j \in hits : i <= j

ResetSequenceKeepTimer(m) ==
    [m EXCEPT !.currentSequence = <<>>, !.shown = <<>>]

ResetSequence(m) ==
    [m EXCEPT !.currentSequence = <<>>,
              !.timers = IF m.sequenceTimeout # NoTimeout
                         THEN ClearTimeout(m.timers, m.sequenceTimeout) ELSE @,
              !.sequenceTimeout = NoTimeout,
              !.shown = <<>>]

ResetTimeoutNoClear(m) ==
    LET id == NewTimerId(m.timers)
    IN  [m EXCEPT !.timers = SetTimeout(m.timers, id, SEQUENCE_TIMEOUT),
                  !.sequenceTimeout = id]

ResetTimeout(m) ==
    LET cleared == IF m.sequenceTimeout # NoTimeout
                   THEN ClearTimeout(m.timers, m.sequenceTimeout) ELSE m.timers
        id == NewTimerId(cleared)
    IN  [m EXCEPT !.timers = SetTimeout(cleared, id, SEQUENCE_TIMEOUT),
                  !.sequenceTimeout = id]

\* the value handleKeyDown returns, the actions it hands to onAction, and the
\* matcher it leaves
Outcome(m, consumed, emitted) == [m |-> m, consumed |-> consumed, emitted |-> emitted]

\* handleKeyDown from the push on: the key is appended, the timeout re-armed,
\* the UI notified, and the sequence classified
AfterPush(m, kbs, key) ==
    LET pushed == [ResetTimeout([m EXCEPT !.currentSequence = Append(@, key)])
                       EXCEPT !.shown = Append(m.currentSequence, key)]
        match   == FindMatch(kbs, pushed.currentSequence)
        keybind == FindKeybind(kbs, pushed.currentSequence)
    IN  IF match = "exact"
        THEN IF keybind # 0
             THEN Outcome(ResetSequence(pushed), TRUE, <<kbs[keybind].action>>)
             ELSE Outcome(pushed, FALSE, <<>>)
        ELSE IF match = "partial"
        THEN Outcome(pushed, TRUE, <<>>)
        ELSE Outcome(ResetSequence(pushed), FALSE, <<>>)

HandleKeyDownNoLeaderCheck(m, kbs, en, event, target) ==
    LET key == GetKeyName(event)
    IN  IF ~en THEN Outcome(m, FALSE, <<>>)
        ELSE IF IsInputElement(target) THEN Outcome(m, FALSE, <<>>)
        ELSE IF key = NULL THEN Outcome(m, FALSE, <<>>)
        ELSE AfterPush(m, kbs, key)

HandleKeyDown(m, kbs, en, event, target) ==
    LET key == GetKeyName(event)
    IN  IF ~en THEN Outcome(m, FALSE, <<>>)
        ELSE IF IsInputElement(target) THEN Outcome(m, FALSE, <<>>)
        ELSE IF key = NULL THEN Outcome(m, FALSE, <<>>)
        ELSE IF Len(m.currentSequence) = 0 /\ key # "Space" THEN Outcome(m, FALSE, <<>>)
        ELSE AfterPush(m, kbs, key)

\* a setEnabled that only stores the flag
SetEnabledResultKeepsSequence(m, en) == m

\* setEnabled
SetEnabledResult(m, en) == IF ~en THEN ResetSequence(m) ELSE m

\* an updateKeybinds that also abandons the sequence in progress
UpdateKeybindsResets(m, kbs) == ResetSequence(m)

\* updateKeybinds: this.keybinds = keybinds, nothing else
UpdateKeybindsResult(m, kbs) == m

TimeoutCallbackNoReset(m) == m

\* the callback resetTimeout hands to setTimeout
TimeoutCallback(m) == ResetSequence(m)

-----------------------------------------------------------------------------
(* The browser's tabs (lib/tabs) *)

\* no tab: undefined, or an absent tab id
NoTab == 0

UrlA == "https://a.test"
UrlB == "https://b.test"
Urls == {UrlA, UrlB}

\* document title of the page at a URL; the page at UrlB has none
PageTitle(url) == IF url = UrlA THEN "A" ELSE ""

\* the window a tab is opened in
WindowOf(id) == IF id % 2 = 1 THEN 1 ELSE 2

\* chrome.tabs.Tab as the calls see it; NoTabObject is undefined
NoTabObject == [id |-> NoTab, url |-> "", title |-> "", windowId |-> 0]

TabObject(tb, id) ==
    [id |-> id, url |-> tb[id].url, title |-> tb[id].title, windowId |-> tb[id].windowId]

NewTab(id, url) == [url |-> url, title |-> PageTitle(url), windowId |-> WindowOf(id)]

GetTabByIdNeverFinds(tb, tabId) == NoTabObject

GetTabById(tb, tabId) ==
    IF tabId \in DOMAIN tb THEN TabObject(tb, tabId) ELSE NoTabObject

GetActiveTab(tb, active) ==
    IF active \in DOMAIN tb THEN TabObject(tb, active) ELSE NoTabObject

FindTabByUrlNeverFinds(tb, url) == {NoTabObject}

FindTabByUrlAnyTab(tb, url) ==
    IF DOMAIN tb = {} THEN {NoTabObject} ELSE {TabObject(tb, id) : id \in DOMAIN tb}

\* the tabs findTabByUrl may return: tabs[0] of chrome.tabs.query({url}), the
\* first tab at that URL in the browser's order, or undefined
FindTabByUrl(tb, url) ==
    LET hits == {id \in DOMAIN tb : tb[id].url = url}
    IN  IF hits = {} THEN {NoTabObject} ELSE {TabObject(tb, id) : id \in hits}

AddTab(tb, id, tab) == [i \in (DOMAIN tb) \cup {id} |-> IF i = id THEN tab ELSE tb[i]]

RemoveTab(tb, id) == [i \in (DOMAIN tb) \ {id} |-> tb[i]]

-----------------------------------------------------------------------------
(* The harpoon registry (lib/harpoon over lib/storage) *)

\* an empty slot: null
NoSlot == [id |-> 0, tabId |-> NoTab, url |-> "", title |-> "", windowId |-> 0]

DEFAULT_HARPOON_STATE ==
    [slots |-> <<NoSlot, NoSlot, NoSlot, NoSlot, NoSlot>>, maxSlots |-> 5]

\* slot numbers the calls are made with
SlotArgs == {1, 2}

\* state.slots[slotId - 1], undefined read as an empty slot
SlotAtNext(slots, slotId) ==
    IF slotId + 1 \in 1..Len(slots) THEN slots[slotId + 1] ELSE NoSlot

SlotAt(slots, slotId) ==
    IF slotId \in 1..Len(slots) THEN slots[slotId] ELSE NoSlot

\* markToSlot's record of a valid tab
SlotOf(slotId, tab) ==
    [id |-> slotId, tabId |-> tab.id, url |-> tab.url,
     title |-> IF tab.title # "" THEN tab.title ELSE "Untitled",
     windowId |-> tab.windowId]

Min(a, b) == IF a < b THEN a ELSE b
Max(a, b) == IF a > b THEN a ELSE b

IsInternalUrlChromeOnly(url) == url = "chrome://settings"

IsInternalUrl(url) == url \in {"chrome://settings", "chrome-extension://id/popup.html"}

MarkUpdaterFresh(state, slotId, slot) ==
    [state EXCEPT !.slots = [i \in 1..Max(Len(state.slots), slotId) |->
                                IF i = slotId THEN slot ELSE NoSlot]]

\* markToSlot's updater
MarkUpdater(state, slotId, slot) ==
    LET padded == [i \in 1..(IF Len(state.slots) < slotId THEN slotId ELSE Len(state.slots)) |->
                      IF i <= Len(state.slots) THEN state.slots[i] ELSE NoSlot]
    IN  [state EXCEPT !.slots = [padded EXCEPT ![slotId] = slot]]

HealUpdaterTabIdOnly(state, slotId, tab) ==
    IF SlotAt(state.slots, slotId) # NoSlot
    THEN [state EXCEPT !.slots[slotId] = [@ EXCEPT !.tabId = tab.id]]
    ELSE state

\* jumpToSlot's updater, after a URL search and after a reopen
HealUpdater(state, slotId, tab) ==
    IF SlotAt(state.slots, slotId) # NoSlot
    THEN [state EXCEPT !.slots[slotId] =
                          [@ EXCEPT !.tabId = tab.id, !.windowId = tab.windowId]]
    ELSE state

\* slots with null pushed (or holes left) up to length n
Padded(slots, n) ==
    [i \in 1..Max(Len(slots), n) |-> IF i <= Len(slots) THEN slots[i] ELSE NoSlot]

\* { ...slot, id } of a record, null of null
WithId(slot, id) == IF slot = NoSlot THEN NoSlot ELSE [slot EXCEPT !.id = id]

\* removeFromSlot's updater
RemoveUpdaterAll(state, slotId) ==
    [state EXCEPT !.slots = [i \in 1..Len(state.slots) |-> NoSlot]]

RemoveUpdater(state, slotId) ==
    IF slotId > 0 /\ slotId <= Len(state.slots)
    THEN [state EXCEPT !.slots[slotId] = NoSlot]
    ELSE state

\* removeByUrl's updater
RemoveByUrlUpdaterFirst(state, url) ==
    LET hits == {i \in 1..Len(state.slots) :
                    state.slots[i] # NoSlot /\ state.slots[i].url = url}
    IN  IF hits = {} THEN state
        ELSE [state EXCEPT !.slots[CHOOSE i \in hits : \A j \in hits : i <= j] = NoSlot]

RemoveByUrlUpdater(state, url) ==
    [state EXCEPT !.slots =
        [i \in 1..Len(state.slots) |->
            IF state.slots[i] # NoSlot /\ state.slots[i].url = url
            THEN NoSlot ELSE state.slots[i]]]

\* clearAll's updater: Array(state.maxSlots).fill(null)
ClearAllUpdater(state) ==
    [state EXCEPT !.slots = [i \in 1..state.maxSlots |-> NoSlot]]

\* setMaxSlots: Math.max(1, Math.min(10, maxSlots)) and its updater
ClampedMax(maxSlots) == Max(1, Min(10, maxSlots))

SetMaxSlotsUpdater(state, maxSlots) ==
    [state EXCEPT !.maxSlots = ClampedMax(maxSlots),
                  !.slots = SubSeq(state.slots, 1, Min(ClampedMax(maxSlots), Len(state.slots)))]

\* swapSlots' updater: an index past the end lengthens the array
SwapUpdaterKeepIds(state, slotA, slotB) ==
    LET newSlots == Padded(state.slots, Max(slotA, slotB))
    IN  [state EXCEPT !.slots = [[newSlots EXCEPT ![slotA] = newSlots[slotB]]
                                           EXCEPT ![slotB] = newSlots[slotA]]]

SwapUpdater(state, slotA, slotB) ==
    LET newSlots == Padded(state.slots, Max(slotA, slotB))
        temp     == newSlots[slotA]
        atA      == [newSlots EXCEPT ![slotA] = newSlots[slotB]]
        atB      == [atA EXCEPT ![slotB] = temp]
        idA      == [atB EXCEPT ![slotA] = WithId(atB[slotA], slotA)]
        idB      == [idA EXCEPT ![slotB] = WithId(idA[slotB], slotB)]
    IN  [state EXCEPT !.slots = idB]

\* moveSlot's updater: splice(fromIndex, 1), splice(toIndex, 0, movedSlot),
\* then every record renumbered
MoveUpdater(state, fromSlot, toSlot) ==
    LET slots    == state.slots
        inside   == fromSlot <= Len(slots)
        moved    == IF inside THEN slots[fromSlot] ELSE NoSlot
        removed  == IF inside
                    THEN SubSeq(slots, 1, fromSlot - 1) \o SubSeq(slots, fromSlot + 1, Len(slots))
                    ELSE slots
        at       == Min(toSlot, Len(removed) + 1)
        inserted == SubSeq(removed, 1, at - 1) \o <<moved>> \o SubSeq(removed, at, Len(removed))
    IN  [state EXCEPT !.slots = [i \in 1..Len(inserted) |-> WithId(inserted[i], i)]]

SyncUpdaterDiscard(state, newSlots) == state

\* syncWithTabs' updater: the slots it read and healed
SyncUpdater(state, newSlots) == [state EXCEPT !.slots = newSlots]

\* the updater a call of update('harpoon', ...) was given
Updater(f, state) ==
    CASE f.op = "remove"      -> RemoveUpdater(state, f.slotId)
      [] f.op = "removeByUrl" -> RemoveByUrlUpdater(state, f.url)
      [] f.op = "clearAll"    -> ClearAllUpdater(state)
      [] f.op = "setMaxSlots" -> SetMaxSlotsUpdater(state, f.other)
      [] f.op = "swap"        -> SwapUpdater(state, f.slotId, f.other)
      [] f.op = "move"        -> MoveUpdater(state, f.slotId, f.other)
      [] OTHER                -> state

-----------------------------------------------------------------------------
(* The workspace registry (lib/workspaces over lib/storage).  The tab       *)
(* groups switchWorkspace makes in the browser are not part of the stored   *)
(* state and are left out; a workspace's colour is used for them only.      *)

\* workspaces createWorkspace makes in a run
MaxWorkspaces == 2

\* generateId(): `ws_${Date.now()}_${random}`, the n-th id handed out
GenerateId(n) ==
    CASE n = 1 -> "ws_1"
      [] n = 2 -> "ws_2"
      [] n = 3 -> "ws_3"
      [] OTHER -> "ws_4"

GeneratedIds == {GenerateId(n) : n \in 1..MaxWorkspaces}

\* an id no workspace has
UnknownId == "ws_0"

\* workspace ids the calls are made with
WorkspaceIdArgs == {"default", UnknownId} \cup GeneratedIds

\* the name createWorkspace is given, and the names renameWorkspace is given
CreatedName == "Work"
WorkspaceNames == {"Home"}

DEFAULT_WORKSPACE_STATE ==
    [workspaces |-> <<[id |-> "default", name |-> "Default", tabUrls |-> <<>>,
                       tabIds |-> <<>>, isDefault |-> TRUE]>>,
     activeWorkspaceId |-> "default",
     tabToWorkspace |-> <<>>]

\* state.workspaces.find((ws) => ws.id === workspaceId) as an index, 0 for
\* undefined
FindWorkspace(wss, workspaceId) ==
    LET hits == {i \in 1..Len(wss) : wss[i].id = workspaceId}
    IN  IF hits = {} THEN 0 ELSE CHOOSE i \in hits : \A j \in hits : i <= j

\* state.workspaces.find((ws) => ws.isDefault) as an index
FindDefault(wss) ==
    LET hits == {i \in 1..Len(wss) : wss[i].isDefault}
    IN  IF hits = {} THEN 0 ELSE CHOOSE i \in hits : \A j \in hits : i <= j

\* Array.prototype.includes and filter on the lists of a workspace
Includes(list, x) == \E i \in 1..Len(list) : list[i] = x

Without(list, x) == SelectSeq(list, LAMBDA y : y # x)

\* createWorkspace: the workspace and the updater
NewWorkspace(id, name) ==
    [id |-> id, name |-> name, tabUrls |-> <<>>, tabIds |-> <<>>, isDefault |-> FALSE]

CreateUpdater(state, workspace) ==
    [state EXCEPT !.workspaces = Append(@, workspace)]

\* renameWorkspace's updater
RenameUpdater(state, workspaceId, newName) ==
    [state EXCEPT !.workspaces =
        [i \in 1..Len(state.workspaces) |->
            IF state.workspaces[i].id = workspaceId
            THEN [state.workspaces[i] EXCEPT !.name = newName]
            ELSE state.workspaces[i]]]

\* a deleteWorkspace without the isDefault test
DeleteUpdaterAnyWorkspace(state, workspaceId) ==
    [state EXCEPT !.workspaces = SelectSeq(@, LAMBDA ws : ws.id # workspaceId)]

\* deleteWorkspace's updater
DeleteUpdater(state, workspaceId) ==
    LET d == FindDefault(state.workspaces)
        w == FindWorkspace(state.workspaces, workspaceId)
        m == state.tabToWorkspace
    IN  IF w = 0 THEN state
        ELSE IF state.workspaces[w].isDefault THEN state
        ELSE [workspaces |-> SelectSeq(state.workspaces, LAMBDA ws : ws.id # workspaceId),
              tabToWorkspace |->
                  [t \in DOMAIN m |->
                      IF m[t] = workspaceId /\ d # 0 THEN state.workspaces[d].id ELSE m[t]],
              activeWorkspaceId |->
                  IF state.activeWorkspaceId = workspaceId
                  THEN IF d # 0 THEN state.workspaces[d].id ELSE NULL
                  ELSE state.activeWorkspaceId]

\* assignTabToWorkspace's updater
AssignUpdater(state, tabId, tabUrl, workspaceId) ==
    LET m == state.tabToWorkspace
    IN  [state EXCEPT
            !.tabToWorkspace =
                [t \in (DOMAIN m) \cup {tabId} |-> IF t = tabId THEN workspaceId ELSE m[t]],
            !.workspaces =
                [i \in 1..Len(state.workspaces) |->
                    LET ws == state.workspaces[i]
                    IN  IF ws.id = workspaceId
                        THEN [ws EXCEPT
                                 !.tabIds = IF Includes(@, tabId) THEN @ ELSE Append(@, tabId),
                                 !.tabUrls = IF Includes(@, tabUrl) THEN @ ELSE Append(@, tabUrl)]
                        ELSE [ws EXCEPT !.tabIds = Without(@, tabId),
                                        !.tabUrls = Without(@, tabUrl)]]]

\* switchWorkspace's updater; NULL is the "all tabs" view
SwitchUpdater(state, workspaceId) ==
    [state EXCEPT !.activeWorkspaceId = workspaceId]

\* callers of workspace functions, and the frame of a call: arguments,
\* locals, where it is suspended (pc) and the stored state it started from
WsCallers == {1, 2}

WsIdle ==
    [op |-> "none", pc |-> "idle", workspaceId |-> "", name |-> "",
     tabId |-> NoTab, tabUrl |-> "",
     state |-> DEFAULT_WORKSPACE_STATE, current |-> DEFAULT_WORKSPACE_STATE,
     before |-> DEFAULT_WORKSPACE_STATE]

InitWorkspacesIdle ==
    /\ workspaces = DEFAULT_WORKSPACE_STATE
    /\ generated = 0
    /\ wsCalls = [p \in WsCallers |-> WsIdle]

-----------------------------------------------------------------------------
(* Calls of harpoon functions.  A frame holds a call's arguments and locals, *)
(* where it is suspended (pc), the browser and storage calls it has made    *)
(* (trace), what it returned (result), and the registry, tabs and active    *)
(* tab it started from (before).                                            *)

Callers == {1, 2, 3, 4}

\* the calls whose arguments, starting point, API calls and result are kept
\* for the properties; of the other calls only what their code reads is kept,
\* and nothing once they returned
Observed == {1, 2}

Idle ==
    [op |-> "none", pc |-> "idle", slotId |-> 0, tabArg |-> NoTab,
     state |-> DEFAULT_HARPOON_STATE, slot |-> NoSlot, tab |-> NoTabObject,
     current |-> DEFAULT_HARPOON_STATE, result |-> "", trace |-> <<>>,
     other |-> 0, url |-> "", newSlots |-> <<>>, needsUpdate |-> FALSE,
     type |-> "", action |-> "",
     before |-> [harpoon |-> DEFAULT_HARPOON_STATE, tabs |-> <<>>, activeTab |-> NoTab]]

Begin(op, pc, slotId, tabArg) ==
    [Idle EXCEPT !.op = op, !.pc = pc, !.slotId = slotId, !.tabArg = tabArg,
                 !.before = [harpoon |-> harpoon, tabs |-> tabs, activeTab |-> activeTab]]

\* the frame after a call of api, suspended at pc
Called(f, api, pc) == [f EXCEPT !.trace = Append(@, api), !.pc = pc]

Return(f, result) == [f EXCEPT !.pc = "done", !.result = result]

InFlight(p) == calls[p].pc \notin {"idle", "done"}
Quiet == \A p \in Callers : ~InFlight(p)

InitHarpoonIdle ==
    /\ harpoon = DEFAULT_HARPOON_STATE
    /\ reopenClosed = TRUE
    /\ tabs = <<>>
    /\ nextTabId = 1
    /\ activeTab = NoTab
    /\ calls = [p \in Callers |-> Idle]

-----------------------------------------------------------------------------
(* The matcher in a page: keystrokes, the clock, the timer, setEnabled *)

NoEvent == [code |-> "", key |-> ""]

\* the record of an operation: what it was given, the matcher before it, and
\* what it returned and emitted
Did(op, event, target, consumed, emitted) ==
    [op |-> op, event |-> event, target |-> target,
     before |-> Matcher, wasEnabled |-> enabled,
     consumed |-> consumed, emitted |-> emitted]

Install(m) ==
    /\ currentSequence' = m.currentSequence
    /\ sequenceTimeout' = m.sequenceTimeout
    /\ timers' = m.timers
    /\ shown' = m.shown

FreshMatcher == [currentSequence |-> <<>>, sequenceTimeout |-> NoTimeout,
                 timers |-> <<>>, shown |-> <<>>]

InitMatcher ==
    /\ currentSequence = <<>>
    /\ sequenceTimeout = NoTimeout
    /\ keybinds \in BindingTables
    /\ enabled = TRUE
    /\ timers = <<>>
    /\ shown = <<>>
    /\ elapsed = 0
    /\ last = [op |-> "new", event |-> NoEvent, target |-> PageBody,
               before |-> FreshMatcher, wasEnabled |-> TRUE,
               consumed |-> FALSE, emitted |-> <<>>]

InitFeedIdle ==
    /\ feedTarget = 0
    /\ fedCount = 0
    /\ feedEmitted = <<>>
    /\ firstFed = ""
    /\ leaderFed = FALSE
    /\ everConsumed = FALSE

\* the keystroke left the sequence one key longer
Extended(m, after) == Len(after.currentSequence) = Len(m.currentSequence) + 1

Later(ms, dt) == IF ms + dt < SEQUENCE_TIMEOUT THEN ms + dt ELSE SEQUENCE_TIMEOUT

\* a keydown event reaches the document listener
KeyDown ==
    \E event \in KeyEvents, target \in Targets :
        LET r == HandleKeyDown(Matcher, keybinds, enabled, event, target)
        IN  /\ Install(r.m)
            /\ elapsed' = IF Extended(Matcher, r.m) THEN 0 ELSE elapsed
            /\ last' = Did("keydown", event, target, r.consumed, r.emitted)
            /\ UNCHANGED <<keybinds, enabled, feedVars, harpoonVars, wsVars>>

\* time passes: every pending timer comes closer; a due timer fires first
Tick ==
    \E dt \in ClockSteps :
        /\ DOMAIN timers # {}
        /\ \A id \in DOMAIN timers : timers[id] > 0
        /\ timers' = [id \in DOMAIN timers |->
                         IF timers[id] > dt THEN timers[id] - dt ELSE 0]
        /\ elapsed' = Later(elapsed, dt)
        /\ last' = Did("tick", NoEvent, PageBody, FALSE, <<>>)
        /\ UNCHANGED <<currentSequence, sequenceTimeout, keybinds, enabled, shown, feedVars, harpoonVars, wsVars>>

\* a due timer fires and runs its callback
TimerFire ==
    \E id \in DOMAIN timers :
        /\ timers[id] = 0
        /\ Install(TimeoutCallback([Matcher EXCEPT !.timers = ClearTimeout(timers, id)]))
        /\ last' = Did("timeout", NoEvent, PageBody, FALSE, <<>>)
        /\ UNCHANGED <<keybinds, enabled, elapsed, feedVars, harpoonVars, wsVars>>

SetEnabled ==
    \E en \in BOOLEAN :
        /\ enabled' = en
        /\ Install(SetEnabledResult(Matcher, en))
        /\ last' = Did("setEnabled", NoEvent, PageBody, FALSE, <<>>)
        /\ UNCHANGED <<keybinds, elapsed, feedVars, harpoonVars, wsVars>>

\* a binding of three keys, as Space h a in DEFAULT_KEYBINDS
ThreeKeyTable == <<[sequence |-> <<"Space", "h", "h">>, action |-> "harpoonAdd"]>>

\* a binding written in upper case
UpperCaseTable ==
    UpperTable(<<[sequence |-> <<"Space", "h">>, action |-> KeybindActions[1]]>>)

\* tables handed to updateKeybinds: those two and the tables of one binding
SwapTables ==
    {tbl \in LowerTables : Len(tbl) = 1} \cup {ThreeKeyTable, UpperCaseTable}

UpdateKeybinds ==
    \E tbl \in SwapTables :
        /\ keybinds' = tbl
        /\ Install(UpdateKeybindsResult(Matcher, tbl))
        /\ last' = Did("updateKeybinds", NoEvent, PageBody, FALSE, <<>>)
        /\ UNCHANGED <<enabled, elapsed, feedVars, harpoonVars, wsVars>>

Init == InitMatcher /\ InitFeedIdle /\ InitHarpoonIdle /\ InitWorkspacesIdle

Next == KeyDown \/ Tick \/ TimerFire \/ SetEnabled

Spec == Init /\ [][Next]_vars

\* the same with the table replaced at any moment
HotSwapNext == KeyDown \/ Tick \/ TimerFire \/ SetEnabled \/ UpdateKeybinds

HotSwapInit == Init /\ keybinds \in SwapTables

HotSwapSpec == HotSwapInit /\ [][HotSwapNext]_vars

\* time passes, and a timeout that is due runs its callback
HotSwapFairSpec == HotSwapSpec /\ WF_vars(Tick) /\ WF_vars(TimerFire)

-----------------------------------------------------------------------------
(* The sequence matcher's contract, one keystroke at a time *)

SameKey(x, y) == ToLowerCase(x) = ToLowerCase(y)

\* a equals b token for token, case-insensitively
EqualsSequence(a, b) ==
    Len(a) = Len(b) /\ \A i \in 1..Len(a) : SameKey(a[i], b[i])

\* a is a strict prefix of b, case-insensitively
StrictPrefix(a, b) ==
    Len(a) < Len(b) /\ \A i \in 1..Len(a) : SameKey(a[i], b[i])

\* a text-entry element: input, textarea, select or content-editable
TextEntry(target) ==
    target.tagName \in {"INPUT", "TEXTAREA", "SELECT"} \/ target.isContentEditable

LastKey == GetKeyName(last.event)

\* the last operation was a keystroke whose recognised key was appended
Appended ==
    /\ last.op = "keydown"
    /\ last.wasEnabled
    /\ ~TextEntry(last.target)
    /\ LastKey # NULL
    /\ (last.before.currentSequence # <<>> \/ LastKey = "Space")

\* the buffer that keystroke formed
Formed == Append(last.before.currentSequence, LastKey)

ExactBindings   == {i \in 1..Len(keybinds) : EqualsSequence(keybinds[i].sequence, Formed)}
PartialBindings == {i \in 1..Len(keybinds) : StrictPrefix(Formed, keybinds[i].sequence)}

NoTimeoutPending == sequenceTimeout = NoTimeout /\ DOMAIN timers = {}

\* C1: when the appended key makes the buffer equal a binding's sequence
\* (case-insensitively), the action of the first such binding in table order is
\* emitted exactly once, the event is consumed, and the buffer is left empty
\* with no timeout pending.
C1_ExactMatch ==
    (Appended /\ ExactBindings # {}) =>
        /\ \E i \in ExactBindings :
              /\ \A j \in ExactBindings : i <= j
              /\ last.emitted = <<keybinds[i].action>>
        /\ last.consumed
        /\ currentSequence = <<>>
        /\ NoTimeoutPending

\* an exact match of a sequence two bindings share, typed with Shift held
C1_Witness ==
    /\ Appended
    /\ Cardinality(ExactBindings) = 2
    /\ last.event.key = "H"
    /\ last.emitted = <<"openHyperTabs">>
    /\ last.consumed

\* C2: when the buffer formed is a strict prefix of some binding's sequence and
\* equals none, the event is consumed, nothing is emitted, the extended buffer
\* is kept, and the one pending timeout runs its full duration from this
\* keystroke.
C2_PartialMatch ==
    (Appended /\ ExactBindings = {} /\ PartialBindings # {}) =>
        /\ last.consumed
        /\ last.emitted = <<>>
        /\ currentSequence = Formed
        /\ sequenceTimeout # NoTimeout
        /\ DOMAIN timers = {sequenceTimeout}
        /\ timers[sequenceTimeout] = SEQUENCE_TIMEOUT
        /\ elapsed = 0

\* a first Space that is a prefix of both bindings of the table
C2_Witness ==
    /\ Appended
    /\ last.before.currentSequence = <<>>
    /\ Cardinality(PartialBindings) = 2
    /\ ExactBindings = {}
    /\ last.consumed
    /\ currentSequence = <<"Space">>

\* C3: when the buffer formed neither equals nor is a strict prefix of any
\* binding's sequence, the buffer is reset to empty, the pending timeout is
\* cancelled, nothing is emitted and the event is not consumed.
C3_DeadEnd ==
    (Appended /\ ExactBindings = {} /\ PartialBindings = {}) =>
        /\ currentSequence = <<>>
        /\ NoTimeoutPending
        /\ last.emitted = <<>>
        /\ ~last.consumed

\* a key that ends a sequence in progress whose timeout was pending
C3_Witness ==
    /\ Appended
    /\ ExactBindings = {} /\ PartialBindings = {}
    /\ last.before.currentSequence = <<"Space">>
    /\ DOMAIN last.before.timers # {}
    /\ LastKey = "Escape"
    /\ currentSequence = <<>>

\* C4: with an empty buffer, a key that is not the leader is not consumed,
\* emits nothing, leaves the buffer empty and starts no timeout.
C4_IdleFilter ==
    (last.op = "keydown" /\ last.before.currentSequence = <<>> /\ LastKey # "Space") =>
        /\ ~last.consumed
        /\ last.emitted = <<>>
        /\ currentSequence = <<>>
        /\ NoTimeoutPending

\* h typed on the page while idle, with a binding that begins with h installed
C4_Witness ==
    /\ last.op = "keydown"
    /\ last.wasEnabled
    /\ last.target = PageBody
    /\ last.before.currentSequence = <<>>
    /\ LastKey = "h"
    /\ \E i \in 1..Len(keybinds) : keybinds[i].sequence = <<"h">>
    /\ ~last.consumed

NonLeaderEvents == {event \in KeyEvents : GetKeyName(event) # "Space"}

\* C5: the timeout fires only once the full duration has elapsed since the last
\* keystroke that extended the buffer; it resets the buffer to empty and emits
\* nothing, and a non-leader key that follows is not consumed, emits nothing
\* and leaves the matcher idle.
C5_TimeoutReset ==
    (last.op = "timeout") =>
        /\ elapsed = SEQUENCE_TIMEOUT
        /\ currentSequence = <<>>
        /\ last.emitted = <<>>
        /\ NoTimeoutPending
        /\ \A event \in NonLeaderEvents, target \in Targets :
              HandleKeyDown(Matcher, keybinds, enabled, event, target)
                  = Outcome(Matcher, FALSE, <<>>)

\* Space, then the timeout, with a binding Space h that h would have completed
C5_Witness ==
    /\ last.op = "timeout"
    /\ last.before.currentSequence = <<"Space">>
    /\ \E i \in 1..Len(keybinds) : keybinds[i].sequence = <<"Space", "h">>
    /\ currentSequence = <<>>

-----------------------------------------------------------------------------
(* Runs of keys fed to a freshly constructed matcher.  In a scripted run    *)
(* (feedTarget > 0) the keys of one binding's sequence are typed on the     *)
(* page, in order and without pause; in a free run (feedTarget = 0) any key *)
(* may be typed on the page, and time may pass.                             *)

\* the keyboard event that types key name k
EventFor(k) ==
    IF ToLowerCase(k) = "space" THEN [code |-> "Space", key |-> " "]
    ELSE [code |-> "KeyH", key |-> k]

InitFeed ==
    /\ feedTarget \in 0..Len(keybinds)
    /\ fedCount = 0
    /\ feedEmitted = <<>>
    /\ firstFed = ""
    /\ leaderFed = FALSE
    /\ everConsumed = FALSE

Fed(event, r) ==
    /\ Install(r.m)
    /\ elapsed' = IF Extended(Matcher, r.m) THEN 0 ELSE elapsed
    /\ fedCount' = fedCount + 1
    /\ feedEmitted' = feedEmitted \o r.emitted
    /\ firstFed' = IF fedCount = 0 THEN GetKeyName(event) ELSE firstFed
    /\ leaderFed' = (leaderFed \/ GetKeyName(event) = "Space")
    /\ everConsumed' = (everConsumed \/ r.consumed)
    /\ UNCHANGED <<keybinds, enabled, last, feedTarget, harpoonVars, wsVars>>

\* the next key of the target binding's sequence is typed
FeedBinding ==
    /\ feedTarget > 0
    /\ fedCount < Len(keybinds[feedTarget].sequence)
    /\ LET event == EventFor(keybinds[feedTarget].sequence[fedCount + 1])
       IN  Fed(event, HandleKeyDown(Matcher, keybinds, enabled, event, PageBody))

\* any key is typed
FeedKey ==
    /\ feedTarget = 0
    /\ fedCount < MaxFeed
    /\ \E event \in KeyEvents :
          Fed(event, HandleKeyDown(Matcher, keybinds, enabled, event, PageBody))

FeedTick ==
    /\ feedTarget = 0
    /\ \E dt \in ClockSteps :
          /\ DOMAIN timers # {}
          /\ \A id \in DOMAIN timers : timers[id] > 0
          /\ timers' = [id \in DOMAIN timers |->
                           IF timers[id] > dt THEN timers[id] - dt ELSE 0]
          /\ elapsed' = Later(elapsed, dt)
          /\ UNCHANGED <<currentSequence, sequenceTimeout, keybinds, enabled, shown,
                         last, feedVars, harpoonVars, wsVars>>

FeedTimerFire ==
    /\ feedTarget = 0
    /\ \E id \in DOMAIN timers :
          /\ timers[id] = 0
          /\ Install(TimeoutCallback([Matcher EXCEPT !.timers = ClearTimeout(timers, id)]))
          /\ UNCHANGED <<keybinds, enabled, elapsed, last, feedVars, harpoonVars, wsVars>>

FeedInit == InitMatcher /\ InitFeed /\ InitHarpoonIdle /\ InitWorkspacesIdle

FeedNext == FeedBinding \/ FeedKey \/ FeedTick \/ FeedTimerFire

FeedSpec == FeedInit /\ [][FeedNext]_vars

-----------------------------------------------------------------------------
(* The sequence matcher's contract over runs of keys *)

\* a is a prefix of b (or equal to it), case-insensitively
Prefix(a, b) ==
    Len(a) <= Len(b) /\ \A i \in 1..Len(a) : SameKey(a[i], b[i])

\* no binding's sequence is a prefix of another's
PrefixFree(kbs) ==
    \A i, j \in 1..Len(kbs) : i # j => ~Prefix(kbs[i].sequence, kbs[j].sequence)

\* every binding's sequence begins with the leader
LeaderFirst(kbs) ==
    \A i \in 1..Len(kbs) : SameKey(kbs[i].sequence[1], "Space")

\* exactly the keys of the target binding's sequence have been fed
TargetFed ==
    /\ feedTarget > 0
    /\ fedCount = Len(keybinds[feedTarget].sequence)

\* C7, as claimed: for every table in which no binding's sequence is a prefix
\* of another's, feeding an idle matcher exactly the keys of one binding's
\* sequence emits exactly that binding's action, once, and leaves the buffer
\* empty.
C7_FeedBindingAnyTable ==
    (PrefixFree(keybinds) /\ TargetFed) =>
        /\ feedEmitted = <<keybinds[feedTarget].action>>
        /\ currentSequence = <<>>

\* C7, amended: the same for every such table whose sequences all begin with
\* the leader Space.
C7_FeedBinding ==
    (PrefixFree(keybinds) /\ LeaderFirst(keybinds) /\ TargetFed) =>
        /\ feedEmitted = <<keybinds[feedTarget].action>>
        /\ currentSequence = <<>>

\* the second binding of a two-binding table, written in upper case, was fed
C7_Witness ==
    /\ PrefixFree(keybinds) /\ LeaderFirst(keybinds) /\ TargetFed
    /\ Len(keybinds) = 2
    /\ feedTarget = 2
    /\ keybinds[2].sequence = <<"SPACE", "H">>
    /\ feedEmitted = <<"harpoonAdd">>

\* C8, as claimed: if the first key fed to an idle matcher is not the leader,
\* no event of the run is consumed and no action is ever emitted.
C8_NoLeaderFirstNeverMatches ==
    (firstFed \notin {"", NULL, "Space"}) =>
        /\ ~everConsumed
        /\ feedEmitted = <<>>

\* C8, amended: until a leader key is fed to an idle matcher, no event is
\* consumed and no action is emitted.
C8_NothingBeforeLeader ==
    (~leaderFed) =>
        /\ ~everConsumed
        /\ feedEmitted = <<>>
        /\ currentSequence = <<>>

\* a whole free run of h keys, with a binding that is just h installed
C8_Witness ==
    /\ feedTarget = 0
    /\ fedCount = MaxFeed
    /\ firstFed = "h"
    /\ ~leaderFed
    /\ \E i \in 1..Len(keybinds) : keybinds[i].sequence = <<"h">>
    /\ ~everConsumed

\* binding i's sequence is a strict prefix of binding j's
Shadows(i, j) == StrictPrefix(keybinds[i].sequence, keybinds[j].sequence)

Emitted(action) == \E n \in 1..Len(feedEmitted) : feedEmitted[n] = action

\* C25, as claimed: when the table has a binding for S and a binding whose
\* sequence has S as a strict prefix, feeding S to an idle matcher emits S's
\* action at once and empties the buffer, and the longer binding's action is
\* never emitted, whatever keys follow.
C25_ExactWinsAnyTable ==
    \A i, j \in 1..Len(keybinds) :
        Shadows(i, j) =>
            /\ (feedTarget = i /\ TargetFed) =>
                  /\ feedEmitted = <<keybinds[i].action>>
                  /\ currentSequence = <<>>
            /\ ~Emitted(keybinds[j].action)

\* C25, amended: the same when S begins with the leader Space.
C25_ExactWins ==
    \A i, j \in 1..Len(keybinds) :
        Shadows(i, j) =>
            /\ (feedTarget = i /\ TargetFed /\ SameKey(keybinds[i].sequence[1], "Space")) =>
                  /\ feedEmitted = <<keybinds[i].action>>
                  /\ currentSequence = <<>>
                  /\ NoTimeoutPending
            /\ ~Emitted(keybinds[j].action)

\* all keys of the longer binding Space h were fed: Space fired the shorter
\* binding, h was then ignored
C25_Witness ==
    /\ Len(keybinds) = 2
    /\ Shadows(1, 2)
    /\ feedTarget = 2 /\ TargetFed
    /\ keybinds[2].sequence = <<"Space", "h">>
    /\ feedEmitted = <<keybinds[1].action>>
    /\ currentSequence = <<>>

\* the shorter binding, listed after the longer one, was fed
C25_WitnessShorter ==
    /\ Len(keybinds) = 2
    /\ Shadows(2, 1)
    /\ feedTarget = 2 /\ TargetFed
    /\ feedEmitted = <<keybinds[2].action>>

-----------------------------------------------------------------------------
(* The matcher while its table is replaced: claims over HotSwapSpec *)

\* how the installed table classifies a buffer
Classify(buffer) ==
    IF \E i \in 1..Len(keybinds) : EqualsSequence(keybinds[i].sequence, buffer) THEN "Exact"
    ELSE IF \E i \in 1..Len(keybinds) : StrictPrefix(buffer, keybinds[i].sequence) THEN "Partial"
    ELSE "None"

\* what the last keystroke did, read off its result
Observable ==
    IF last.emitted # <<>> THEN "Exact"
    ELSE IF last.consumed /\ currentSequence = Formed THEN "Partial"
    ELSE "None"

\* C26: hot-swap.  updateKeybinds leaves the buffer, the pending timeout and
\* the enabled flag as they were, and every keystroke that is appended is
\* classified against the table installed at that keystroke: Exact emits the
\* action that table binds, Partial keeps the buffer, None resets it.
C26_HotSwap ==
    /\ (last.op = "updateKeybinds") =>
          /\ Matcher = last.before
          /\ enabled = last.wasEnabled
    /\ Appended =>
          /\ Observable = Classify(Formed)
          /\ last.emitted # <<>> =>
                \E i \in ExactBindings : last.emitted = <<keybinds[i].action>>
          /\ Observable = "None" => currentSequence = <<>> /\ ~last.consumed

\* the table was replaced in mid-sequence by one under which the buffer is
\* not a prefix of anything; buffer and timeout are still there
C26_Witness ==
    /\ last.op = "updateKeybinds"
    /\ currentSequence = <<"Space">>
    /\ sequenceTimeout # NoTimeout
    /\ timers[sequenceTimeout] < SEQUENCE_TIMEOUT
    /\ Classify(currentSequence) = "None"

\* a key after a buffer the installed table could not have built: the
\* keystroke is classified None by the installed table
C26_WitnessNextKey ==
    /\ Appended
    /\ last.before.currentSequence = <<"Space">>
    /\ Classify(<<"Space">>) = "None"
    /\ LastKey = "h"
    /\ Observable = "None"
    /\ currentSequence = <<>>

\* a key after the swap completes a binding of the installed table
C26_WitnessExact ==
    /\ Appended
    /\ last.before.currentSequence = <<"Space">>
    /\ Len(keybinds) = 1
    /\ last.emitted = <<"openHyperTabs">>

\* the buffer is a strict prefix of some binding of the installed table
Building == \E i \in 1..Len(keybinds) : StrictPrefix(currentSequence, keybinds[i].sequence)

C27_WitnessSwapped ==
    /\ last.op = "tick"
    /\ currentSequence = <<"Space">>
    /\ ~Building

\* C28: timer discipline.  At most one timeout is pending, and one is
\* pending exactly when the buffer is non-empty; it is the one the matcher
\* holds the handle of.  A keystroke that extends the buffer leaves one
\* timeout with its full duration to run; whatever empties the buffer (exact
\* match, dead end, timeout, disable) leaves none.
C28_TimerDiscipline ==
    /\ Cardinality(DOMAIN timers) <= 1
    /\ (DOMAIN timers # {}) <=> (currentSequence # <<>>)
    /\ (sequenceTimeout # NoTimeout) <=> (DOMAIN timers = {sequenceTimeout})
    /\ (last.op = "keydown" /\ Extended(last.before, Matcher)) =>
          timers[sequenceTimeout] = SEQUENCE_TIMEOUT
    /\ (last.before.currentSequence # <<>> /\ currentSequence = <<>>) =>
          /\ last.op \in {"keydown", "timeout", "setEnabled"}
          /\ NoTimeoutPending

\* the second key of Space h h, typed when half of the first key's timeout
\* had run: one timeout pending, with the full duration
C28_Witness ==
    /\ Appended
    /\ last.before.currentSequence = <<"Space">>
    /\ last.before.timers[last.before.sequenceTimeout] = 500
    /\ currentSequence = <<"Space", "h">>
    /\ Cardinality(DOMAIN timers) = 1
    /\ timers[sequenceTimeout] = SEQUENCE_TIMEOUT

\* a sequence in progress abandoned by setEnabled(false)
C28_WitnessDisabled ==
    /\ last.op = "setEnabled"
    /\ last.before.currentSequence # <<>>
    /\ DOMAIN last.before.timers # {}
    /\ currentSequence = <<>>
    /\ ~enabled

\* C29: return to idle.  From every state with a non-empty buffer, if time
\* passes and due timeouts fire, the matcher reaches the idle state: empty
\* buffer, no timeout held or pending, nothing shown, as a matcher just
\* constructed.
C29_ReturnToIdle == (currentSequence # <<>>) ~> (Matcher = FreshMatcher)

\* two keys of Space h h were typed and the timeout fired
C29_Witness ==
    /\ last.op = "timeout"
    /\ last.before.currentSequence = <<"Space", "h">>
    /\ enabled
    /\ Matcher = FreshMatcher

-----------------------------------------------------------------------------
(* markToSlot and jumpToSlot, one step per await, and the user's tabs.      *)
(* The background handles one call at a time here: a call starts when no    *)
(* other is in flight, and the user opens, closes, navigates and activates  *)
(* tabs between calls.                                                      *)

\* the ids a tab can have
TabIds == 1..MaxTabs

\* the awaits after which a call still reads the registry it loaded, the tab
\* it found, the record it holds
ReadsCurrent == {"mark_set", "jump_heal_set", "jump_reopen_set", "upd_set", "sync_upd_set"}
ReadsTab == {"jump_activate", "jump_focus", "jump_heal_get", "jump_heal_set",
             "jump_reopen_get", "jump_reopen_set"}
ReadsSlot == {"mark_get", "mark_set", "jump_probe", "jump_find", "jump_settings",
              "jump_create"}

Returned == [Idle EXCEPT !.pc = "done"]

Kept(p, f) ==
    IF p \in Observed THEN f
    ELSE IF f.pc = "done" THEN Returned
    ELSE [f EXCEPT !.before = Idle.before, !.trace = <<>>, !.state = Idle.state,
                   !.current = IF f.pc \in ReadsCurrent THEN @ ELSE Idle.current,
                   !.tab = IF f.pc \in ReadsTab THEN @ ELSE Idle.tab,
                   !.slot = IF f.pc \in ReadsSlot THEN @ ELSE Idle.slot]

Step(p, f) == calls' = [calls EXCEPT ![p] = Kept(p, f)]

\* an update that reads the store again when it writes
LoadedAtSet(f, stored) == stored

\* update: the updater is applied to what get returned (const current), not
\* to what the store holds when set is called
Loaded(f, stored) == f.current

\* ---- markToSlot(slotId, tabId?)

CallMark(p) ==
    \E slotId \in SlotArgs, tabArg \in {NoTab} \cup TabIds :
        /\ Step(p, Begin("mark", "mark_tab", slotId, tabArg))
        /\ UNCHANGED <<harpoon, reopenClosed, tabs, nextTabId, activeTab>>
        /\ UNCHANGED <<keyVars, last, feedVars, wsVars>>

StartMark(p) == Quiet /\ CallMark(p)

\* getTabById(tabId) or getActiveTab(), then the validation and the record
MarkTab(p) ==
    LET f   == calls[p]
        tab == IF f.tabArg # NoTab THEN GetTabById(tabs, f.tabArg)
               ELSE GetActiveTab(tabs, activeTab)
        g   == Called([f EXCEPT !.tab = tab],
                      IF f.tabArg # NoTab THEN "tabs.get" ELSE "tabs.query", "mark_get")
    IN  /\ f.pc = "mark_tab"
        /\ IF tab = NoTabObject \/ tab.id = NoTab \/ tab.url = ""
           THEN Step(p, Return(g, "null"))
           ELSE IF IsInternalUrl(tab.url)
           THEN Step(p, Return(g, "null"))
           ELSE Step(p, [g EXCEPT !.slot = SlotOf(f.slotId, tab)])
        /\ UNCHANGED <<harpoon, reopenClosed, tabs, nextTabId, activeTab>>
        /\ UNCHANGED <<keyVars, last, feedVars, wsVars>>

\* update('harpoon', ...): const current = await get(key)
MarkGet(p) ==
    LET f == calls[p]
    IN  /\ f.pc = "mark_get"
        /\ Step(p, Called([f EXCEPT !.current = harpoon], "storage.get", "mark_set"))
        /\ UNCHANGED <<harpoon, reopenClosed, tabs, nextTabId, activeTab>>
        /\ UNCHANGED <<keyVars, last, feedVars, wsVars>>

\* update('harpoon', ...): await set(key, updater(current)); return slot
MarkSet(p) ==
    LET f == calls[p]
    IN  /\ f.pc = "mark_set"
        /\ harpoon' = MarkUpdater(Loaded(f, harpoon), f.slotId, f.slot)
        /\ Step(p, Return(Called(f, "storage.set", "done"), "slot"))
        /\ UNCHANGED <<reopenClosed, tabs, nextTabId, activeTab>>
        /\ UNCHANGED <<keyVars, last, feedVars, wsVars>>

\* ---- jumpToSlot(slotId)

\* tab ids are capped: a jump that is going to open a tab starts only while an
\* id is left
WouldCreate(slotId) ==
    LET slot == SlotAt(harpoon.slots, slotId)
    IN  /\ slot # NoSlot
        /\ slot.tabId \notin DOMAIN tabs
        /\ \A id \in DOMAIN tabs : tabs[id].url # slot.url
        /\ reopenClosed

CallJump(p) ==
    \E slotId \in SlotArgs :
        /\ WouldCreate(slotId) => nextTabId \in TabIds
        /\ Step(p, Begin("jump", "jump_get", slotId, NoTab))
        /\ UNCHANGED <<harpoon, reopenClosed, tabs, nextTabId, activeTab>>
        /\ UNCHANGED <<keyVars, last, feedVars, wsVars>>

StartJump(p) == Quiet /\ CallJump(p)

\* const state = await getHarpoonState(); the slot; the empty-slot return
JumpGet(p) ==
    LET f    == calls[p]
        slot == SlotAt(harpoon.slots, f.slotId)
        g    == Called([f EXCEPT !.state = harpoon, !.slot = slot], "storage.get",
                       IF slot.tabId # NoTab THEN "jump_probe" ELSE "jump_find")
    IN  /\ f.pc = "jump_get"
        /\ IF slot = NoSlot THEN Step(p, Return(g, "false")) ELSE Step(p, g)
        /\ UNCHANGED <<harpoon, reopenClosed, tabs, nextTabId, activeTab>>
        /\ UNCHANGED <<keyVars, last, feedVars, wsVars>>

\* const tab = await getTabById(slot.tabId)
JumpProbe(p) ==
    LET f   == calls[p]
        tab == GetTabById(tabs, f.slot.tabId)
    IN  /\ f.pc = "jump_probe"
        /\ Step(p, Called([f EXCEPT !.tab = tab], "tabs.get",
                          IF tab # NoTabObject THEN "jump_activate" ELSE "jump_find"))
        /\ UNCHANGED <<harpoon, reopenClosed, tabs, nextTabId, activeTab>>
        /\ UNCHANGED <<keyVars, last, feedVars, wsVars>>

\* const tabByUrl = await findTabByUrl(slot.url)
JumpFind(p) ==
    LET f == calls[p]
    IN  /\ f.pc = "jump_find"
        /\ \E tabByUrl \in FindTabByUrl(tabs, f.slot.url) :
              Step(p, Called([f EXCEPT !.tab = tabByUrl], "tabs.query",
                             IF tabByUrl # NoTabObject /\ tabByUrl.id # NoTab
                             THEN "jump_heal_get" ELSE "jump_settings"))
        /\ UNCHANGED <<harpoon, reopenClosed, tabs, nextTabId, activeTab>>
        /\ UNCHANGED <<keyVars, last, feedVars, wsVars>>

\* update('harpoon', ...) of the found tab: get
JumpHealGet(p) ==
    LET f == calls[p]
    IN  /\ f.pc = "jump_heal_get"
        /\ Step(p, Called([f EXCEPT !.current = harpoon], "storage.get", "jump_heal_set"))
        /\ UNCHANGED <<harpoon, reopenClosed, tabs, nextTabId, activeTab>>
        /\ UNCHANGED <<keyVars, last, feedVars, wsVars>>

\* update('harpoon', ...) of the found tab: set
JumpHealSet(p) ==
    LET f == calls[p]
    IN  /\ f.pc = "jump_heal_set"
        /\ harpoon' = HealUpdater(Loaded(f, harpoon), f.slotId, f.tab)
        /\ Step(p, Called(f, "storage.set", "jump_activate"))
        /\ UNCHANGED <<reopenClosed, tabs, nextTabId, activeTab>>
        /\ UNCHANGED <<keyVars, last, feedVars, wsVars>>

\* switchToTab(tab.id, tab.windowId): chrome.tabs.update(tabId, {active: true}),
\* which rejects when the tab is gone
JumpActivate(p) ==
    LET f == calls[p]
    IN  /\ f.pc = "jump_activate"
        /\ IF f.tab.id \in DOMAIN tabs
           THEN /\ activeTab' = f.tab.id
                /\ Step(p, Called(f, "tabs.update", "jump_focus"))
           ELSE /\ activeTab' = activeTab
                /\ Step(p, Return(Called(f, "tabs.update", "done"), "threw"))
        /\ UNCHANGED <<harpoon, reopenClosed, tabs, nextTabId>>
        /\ UNCHANGED <<keyVars, last, feedVars, wsVars>>

\* switchToTab: chrome.windows.update(windowId, {focused: true}), the window
\* looked up when none was given; return true
JumpFocus(p) ==
    LET f == calls[p]
        g == IF f.tab.windowId # 0 THEN Called(f, "windows.update", "done")
             ELSE IF GetTabById(tabs, f.tab.id).windowId # 0
                  THEN Called(Called(f, "tabs.get", "done"), "windows.update", "done")
                  ELSE Called(f, "tabs.get", "done")
    IN  /\ f.pc = "jump_focus"
        /\ Step(p, Return(g, "true"))
        /\ UNCHANGED <<harpoon, reopenClosed, tabs, nextTabId, activeTab>>
        /\ UNCHANGED <<keyVars, last, feedVars, wsVars>>

\* const settings = await get('settings'); the reopen-disabled return
JumpSettings(p) ==
    LET f == calls[p]
        g == Called(f, "storage.get", "jump_create")
    IN  /\ f.pc = "jump_settings"
        /\ IF reopenClosed THEN Step(p, g) ELSE Step(p, Return(g, "false"))
        /\ UNCHANGED <<harpoon, reopenClosed, tabs, nextTabId, activeTab>>
        /\ UNCHANGED <<keyVars, last, feedVars, wsVars>>

\* const newTab = await createTab(slot.url): a new, active tab
JumpCreate(p) ==
    LET f == calls[p]
        tb == AddTab(tabs, nextTabId, NewTab(nextTabId, f.slot.url))
    IN  /\ f.pc = "jump_create"
        /\ nextTabId \in TabIds
        /\ tabs' = tb
        /\ nextTabId' = nextTabId + 1
        /\ activeTab' = nextTabId
        /\ Step(p, Called([f EXCEPT !.tab = TabObject(tb, nextTabId)], "tabs.create",
                          "jump_reopen_get"))
        /\ UNCHANGED <<harpoon, reopenClosed>>
        /\ UNCHANGED <<keyVars, last, feedVars, wsVars>>

\* update('harpoon', ...) of the new tab: get
JumpReopenGet(p) ==
    LET f == calls[p]
    IN  /\ f.pc = "jump_reopen_get"
        /\ Step(p, Called([f EXCEPT !.current = harpoon], "storage.get", "jump_reopen_set"))
        /\ UNCHANGED <<harpoon, reopenClosed, tabs, nextTabId, activeTab>>
        /\ UNCHANGED <<keyVars, last, feedVars, wsVars>>

\* update('harpoon', ...) of the new tab: set; return true
JumpReopenSet(p) ==
    LET f == calls[p]
    IN  /\ f.pc = "jump_reopen_set"
        /\ harpoon' = HealUpdater(Loaded(f, harpoon), f.slotId, f.tab)
        /\ Step(p, Return(Called(f, "storage.set", "done"), "true"))
        /\ UNCHANGED <<reopenClosed, tabs, nextTabId, activeTab>>
        /\ UNCHANGED <<keyVars, last, feedVars, wsVars>>

\* ---- the user's tabs, between calls

Retire == calls' = [p \in Callers |-> Idle]

OpenTab ==
    \E url \in Urls :
        /\ Quiet
        /\ nextTabId <= MaxTabs
        /\ tabs' = AddTab(tabs, nextTabId, NewTab(nextTabId, url))
        /\ nextTabId' = nextTabId + 1
        /\ activeTab' = nextTabId
        /\ Retire
        /\ UNCHANGED <<harpoon, reopenClosed>>
        /\ UNCHANGED <<keyVars, last, feedVars, wsVars>>

\* closing the active tab makes another tab, if any, the active one
CloseTab ==
    \E id \in DOMAIN tabs :
        /\ Quiet
        /\ tabs' = RemoveTab(tabs, id)
        /\ IF activeTab # id THEN activeTab' = activeTab
           ELSE IF DOMAIN tabs = {id} THEN activeTab' = NoTab
           ELSE activeTab' \in (DOMAIN tabs) \ {id}
        /\ Retire
        /\ UNCHANGED <<harpoon, reopenClosed, nextTabId>>
        /\ UNCHANGED <<keyVars, last, feedVars, wsVars>>

NavigateTab ==
    \E id \in DOMAIN tabs, url \in Urls :
        /\ Quiet
        /\ url # tabs[id].url
        /\ tabs' = [tabs EXCEPT ![id] = [@ EXCEPT !.url = url, !.title = PageTitle(url)]]
        /\ Retire
        /\ UNCHANGED <<harpoon, reopenClosed, nextTabId, activeTab>>
        /\ UNCHANGED <<keyVars, last, feedVars, wsVars>>

ActivateTab ==
    \E id \in DOMAIN tabs :
        /\ Quiet
        /\ id # activeTab
        /\ activeTab' = id
        /\ Retire
        /\ UNCHANGED <<harpoon, reopenClosed, tabs, nextTabId>>
        /\ UNCHANGED <<keyVars, last, feedVars, wsVars>>

\* ---- importData(data), from the options page

\* exported registries whose first slot has no tabId
ImportedStates ==
    {[slots |-> <<[id |-> 1, tabId |-> NoTab, url |-> url, title |-> "Untitled",
                   windowId |-> 0], NoSlot, NoSlot, NoSlot, NoSlot>>,
      maxSlots |-> 5] : url \in Urls}

\* set('harpoon', {...DEFAULT_HARPOON_STATE, ...data.harpoon})
ImportData ==
    \E data \in ImportedStates :
        /\ Quiet
        /\ harpoon' = [slots |-> data.slots, maxSlots |-> data.maxSlots]
        /\ Retire
        /\ UNCHANGED <<reopenClosed, tabs, nextTabId, activeTab>>
        /\ UNCHANGED <<keyVars, last, feedVars, wsVars>>

\* the matcher plays no part here
InitMatcherAside ==
    /\ currentSequence = <<>>
    /\ sequenceTimeout = NoTimeout
    /\ keybinds = <<>>
    /\ enabled = TRUE
    /\ timers = <<>>
    /\ shown = <<>>
    /\ elapsed = 0
    /\ last = [op |-> "new", event |-> NoEvent, target |-> PageBody,
               before |-> FreshMatcher, wasEnabled |-> TRUE,
               consumed |-> FALSE, emitted |-> <<>>]

HarpoonInit ==
    /\ InitMatcherAside
    /\ InitFeedIdle
    /\ InitWorkspacesIdle
    /\ harpoon = DEFAULT_HARPOON_STATE
    /\ reopenClosed \in BOOLEAN
    /\ tabs = <<>>
    /\ nextTabId = 1
    /\ activeTab = NoTab
    /\ calls = [p \in Callers |-> Idle]

HarpoonNext ==
    \/ StartMark(1) \/ MarkTab(1) \/ MarkGet(1) \/ MarkSet(1)
    \/ StartJump(1) \/ JumpGet(1) \/ JumpProbe(1) \/ JumpFind(1)
    \/ JumpHealGet(1) \/ JumpHealSet(1) \/ JumpActivate(1) \/ JumpFocus(1)
    \/ JumpSettings(1) \/ JumpCreate(1) \/ JumpReopenGet(1) \/ JumpReopenSet(1)
    \/ OpenTab \/ CloseTab \/ NavigateTab \/ ActivateTab \/ ImportData

HarpoonSpec == HarpoonInit /\ [][HarpoonNext]_vars

-----------------------------------------------------------------------------
(* jumpToSlot: claims C9 and C10, stated over a finished call, its          *)
(* arguments, the registry and the tabs it started from, and the API calls  *)
(* it made.                                                                 *)

JumpDone(p) == calls[p].op = "jump" /\ calls[p].pc = "done"

\* the slot the call was asked for, in the registry it started from
SlotBefore(p) == SlotAt(calls[p].before.harpoon.slots, calls[p].slotId)

LiveAt(tb, url) == {id \in DOMAIN tb : tb[id].url = url}

Made(p, api) == \E i \in 1..Len(calls[p].trace) : calls[p].trace[i] = api

\* C9: jump fallback ordering.  When the slot's stored tab id does not
\* resolve (or the slot has none) and a live tab has the slot's URL, jumpToSlot
\* rewrites the slot's tabId and windowId to such a tab, leaves the rest of the
\* registry alone, activates that tab, returns true and creates no tab; and
\* whenever jumpToSlot creates a tab, the slot was occupied, its stored id did
\* not resolve and no live tab had its URL.
C9_JumpFallbackOrdering ==
    \A p \in Callers :
        LET f == calls[p]
            b == f.before
            s == SlotBefore(p)
        IN  JumpDone(p) =>
              /\ (s # NoSlot /\ s.tabId \notin DOMAIN b.tabs /\ LiveAt(b.tabs, s.url) # {}) =>
                    /\ f.result = "true"
                    /\ \E t \in LiveAt(b.tabs, s.url) :
                          /\ harpoon = [b.harpoon EXCEPT !.slots[f.slotId] =
                                            [s EXCEPT !.tabId = t,
                                                      !.windowId = b.tabs[t].windowId]]
                          /\ activeTab = t
                    /\ tabs = b.tabs
                    /\ ~Made(p, "tabs.create")
              /\ Made(p, "tabs.create") =>
                    /\ s # NoSlot
                    /\ s.tabId \notin DOMAIN b.tabs
                    /\ LiveAt(b.tabs, s.url) = {}

\* a jump whose slot named a closed tab in another window found a live tab at
\* the slot's URL, and the slot now names that tab and its window
C9_Witness ==
    \E p \in Callers :
        /\ JumpDone(p)
        /\ SlotBefore(p) # NoSlot
        /\ SlotBefore(p).tabId # NoTab
        /\ SlotBefore(p).tabId \notin DOMAIN calls[p].before.tabs
        /\ LiveAt(calls[p].before.tabs, SlotBefore(p).url) # {}
        /\ calls[p].result = "true"
        /\ harpoon.slots[calls[p].slotId].tabId = activeTab
        /\ harpoon.slots[calls[p].slotId].windowId # SlotBefore(p).windowId

\* C10: jump with a live handle.  When the slot is occupied and its stored tab
\* id resolves to an existing tab, jumpToSlot activates that tab and returns
\* true, and it makes no URL search, creates no tab and writes no registry:
\* the registry and the set of tabs are as they were.
C10_JumpLiveHandle ==
    \A p \in Callers :
        LET f == calls[p]
            b == f.before
            s == SlotBefore(p)
        IN  (JumpDone(p) /\ s # NoSlot /\ s.tabId \in DOMAIN b.tabs) =>
              /\ f.result = "true"
              /\ activeTab = s.tabId
              /\ ~Made(p, "tabs.query")
              /\ ~Made(p, "tabs.create")
              /\ ~Made(p, "storage.set")
              /\ Made(p, "tabs.update")
              /\ harpoon = b.harpoon
              /\ tabs = b.tabs

\* a jump to a slot whose tab was open but not the active one
C10_Witness ==
    \E p \in Callers :
        /\ JumpDone(p)
        /\ SlotBefore(p) # NoSlot
        /\ SlotBefore(p).tabId \in DOMAIN calls[p].before.tabs
        /\ calls[p].before.activeTab # SlotBefore(p).tabId
        /\ activeTab = SlotBefore(p).tabId
        /\ calls[p].result = "true"

\* the stored tab id of the call's slot did not resolve and no live tab had
\* the slot's URL when the call began
Unreachable(p) ==
    /\ SlotBefore(p) # NoSlot
    /\ SlotBefore(p).tabId \notin DOMAIN calls[p].before.tabs
    /\ LiveAt(calls[p].before.tabs, SlotBefore(p).url) = {}

\* C11: jump with recreation.  For an occupied slot whose stored tab id does
\* not resolve and whose URL no live tab has, with harpoonReopenClosed on,
\* jumpToSlot returns true, there is exactly one more tab, it is at the
\* slot's URL, and the slot holds the new tab's id and window id; the other
\* tabs and the rest of the registry are as they were.
C11_JumpRecreates ==
    \A p \in Callers :
        LET f == calls[p]
            b == f.before
            s == SlotBefore(p)
        IN  (JumpDone(p) /\ Unreachable(p) /\ reopenClosed) =>
              /\ f.result = "true"
              /\ \E t \in (DOMAIN tabs) \ (DOMAIN b.tabs) :
                    /\ DOMAIN tabs = (DOMAIN b.tabs) \cup {t}
                    /\ \A id \in DOMAIN b.tabs : tabs[id] = b.tabs[id]
                    /\ tabs[t].url = s.url
                    /\ harpoon = [b.harpoon EXCEPT !.slots[f.slotId] =
                                      [s EXCEPT !.tabId = t, !.windowId = tabs[t].windowId]]

\* mark(1) on a tab at https://a.test, the tab closed, jump(1): the page is
\* open again in a new tab and slot 1 names it
C11_Witness ==
    \E p \in Callers :
        /\ JumpDone(p)
        /\ Unreachable(p)
        /\ reopenClosed
        /\ calls[p].slotId = 1
        /\ SlotBefore(p).url = UrlA
        /\ SlotBefore(p).tabId # NoTab
        /\ calls[p].result = "true"
        /\ harpoon.slots[1].tabId \in DOMAIN tabs
        /\ harpoon.slots[1].tabId # SlotBefore(p).tabId
        /\ harpoon.slots[1].windowId # SlotBefore(p).windowId
        /\ tabs[harpoon.slots[1].tabId].url = UrlA

\* C12: jump exhaustion.  For an occupied slot whose stored tab id does not
\* resolve and whose URL no live tab has, with harpoonReopenClosed off,
\* jumpToSlot returns false; it activates no tab, creates none and writes no
\* registry: registry, tabs and the active tab are as they were.
C12_JumpExhausted ==
    \A p \in Callers :
        LET f == calls[p]
            b == f.before
        IN  (JumpDone(p) /\ Unreachable(p) /\ ~reopenClosed) =>
              /\ f.result = "false"
              /\ ~Made(p, "tabs.update")
              /\ ~Made(p, "windows.update")
              /\ ~Made(p, "tabs.create")
              /\ ~Made(p, "storage.set")
              /\ harpoon = b.harpoon
              /\ tabs = b.tabs
              /\ activeTab = b.activeTab

\* a failed jump to a slot whose tab was closed, while a tab at another URL
\* was open
C12_Witness ==
    \E p \in Callers :
        /\ JumpDone(p)
        /\ Unreachable(p)
        /\ SlotBefore(p).tabId # NoTab
        /\ ~reopenClosed
        /\ DOMAIN tabs # {}
        /\ calls[p].result = "false"
        /\ Made(p, "tabs.query")

\* C13: jump on an empty slot.  When the registry holds no record at the
\* given slot, jumpToSlot returns false after reading the registry and makes
\* no other call: no probe, no activation, no creation, no registry write.
C13_JumpEmptySlot ==
    \A p \in Callers :
        LET f == calls[p]
            b == f.before
        IN  (/\ JumpDone(p)
             /\ f.slotId \in 1..Len(b.harpoon.slots)
             /\ b.harpoon.slots[f.slotId] = NoSlot) =>
              /\ f.result = "false"
              /\ f.trace = <<"storage.get">>
              /\ harpoon = b.harpoon
              /\ tabs = b.tabs
              /\ activeTab = b.activeTab

\* a jump to the empty slot 1 while slot 2 held a record of an open tab
C13_Witness ==
    \E p \in Callers :
        /\ JumpDone(p)
        /\ calls[p].slotId = 1
        /\ calls[p].before.harpoon.slots[1] = NoSlot
        /\ calls[p].before.harpoon.slots[2] # NoSlot
        /\ calls[p].before.harpoon.slots[2].tabId \in DOMAIN tabs
        /\ calls[p].result = "false"

-----------------------------------------------------------------------------
(* The other registry operations.  removeFromSlot, removeByUrl, clearAll,   *)
(* setMaxSlots, swapSlots and moveSlot are one update('harpoon', updater)   *)
(* each: a read of the store, then a write of updater(current).             *)
(* syncWithTabs reads the registry, probes each record's tab, and writes    *)
(* the slots it read, healed, if any record changed.                        *)

MaxSlotsArgs == {0, 2, 11}

BeginUpdate(op, slotId, other, url) ==
    [Begin(op, "upd_get", slotId, NoTab) EXCEPT !.other = other, !.url = url]

Same == /\ UNCHANGED <<harpoon, reopenClosed, tabs, nextTabId, activeTab>>
        /\ UNCHANGED <<keyVars, last, feedVars, wsVars>>

CallRemove(p) ==
    \E slotId \in SlotArgs : Step(p, BeginUpdate("remove", slotId, 0, "")) /\ Same

CallRemoveByUrl(p) ==
    \E url \in Urls : Step(p, BeginUpdate("removeByUrl", 0, 0, url)) /\ Same

CallClearAll(p) == Step(p, BeginUpdate("clearAll", 0, 0, "")) /\ Same

CallSetMaxSlots(p) ==
    \E maxSlots \in MaxSlotsArgs : Step(p, BeginUpdate("setMaxSlots", 0, maxSlots, "")) /\ Same

CallSwapSlots(p) ==
    \E slotA \in SlotArgs, slotB \in SlotArgs :
        Step(p, BeginUpdate("swap", slotA, slotB, "")) /\ Same

\* if (fromSlot === toSlot) return;
CallMoveSlot(p) ==
    \E fromSlot \in SlotArgs, toSlot \in SlotArgs :
        /\ IF fromSlot = toSlot
           THEN Step(p, Return(BeginUpdate("move", fromSlot, toSlot, ""), "void"))
           ELSE Step(p, BeginUpdate("move", fromSlot, toSlot, ""))
        /\ Same

CallSyncWithTabs(p) == Step(p, Begin("sync", "sync_get", 0, NoTab)) /\ Same

StartRemove(p) == Quiet /\ CallRemove(p)
StartRemoveByUrl(p) == Quiet /\ CallRemoveByUrl(p)
StartClearAll(p) == Quiet /\ CallClearAll(p)
StartSetMaxSlots(p) == Quiet /\ CallSetMaxSlots(p)
StartSwapSlots(p) == Quiet /\ CallSwapSlots(p)
StartMoveSlot(p) == Quiet /\ CallMoveSlot(p)
StartSyncWithTabs(p) == Quiet /\ CallSyncWithTabs(p)

\* update: const current = await get(key)
UpdateGet(p) ==
    LET f == calls[p]
    IN  /\ f.pc = "upd_get"
        /\ Step(p, Called([f EXCEPT !.current = harpoon], "storage.get", "upd_set"))
        /\ Same

\* update: await set(key, updater(current))
UpdateSet(p) ==
    LET f == calls[p]
    IN  /\ f.pc = "upd_set"
        /\ harpoon' = Updater(f, Loaded(f, harpoon))
        /\ Step(p, Return(Called(f, "storage.set", "done"), "void"))
        /\ UNCHANGED <<reopenClosed, tabs, nextTabId, activeTab>>
        /\ UNCHANGED <<keyVars, last, feedVars, wsVars>>

\* ---- syncWithTabs()

\* the loop, writing the copy back whether or not a record was healed
SyncLoopAlwaysWrites(f, i) ==
    LET todo == {j \in i..Len(f.newSlots) :
                    f.newSlots[j] # NoSlot /\ f.newSlots[j].tabId # NoTab}
    IN  IF todo # {}
        THEN [f EXCEPT !.pc = "sync_probe", !.slotId = CHOOSE j \in todo : \A k \in todo : j <= k]
        ELSE [f EXCEPT !.pc = "sync_upd_get"]

\* the loop from index i on, up to its next await: records that are null or
\* have no tabId are passed over; after the last one, the update or the return
SyncLoop(f, i) ==
    LET todo == {j \in i..Len(f.newSlots) :
                    f.newSlots[j] # NoSlot /\ f.newSlots[j].tabId # NoTab}
    IN  IF todo # {}
        THEN [f EXCEPT !.pc = "sync_probe", !.slotId = CHOOSE j \in todo : \A k \in todo : j <= k]
        ELSE IF f.needsUpdate THEN [f EXCEPT !.pc = "sync_upd_get"]
        ELSE Return(f, "void")

\* const state = await getHarpoonState(); const newSlots = [...state.slots]
SyncGet(p) ==
    LET f == calls[p]
        g == Called([f EXCEPT !.state = harpoon, !.newSlots = harpoon.slots,
                              !.needsUpdate = FALSE], "storage.get", "sync_probe")
    IN  /\ f.pc = "sync_get"
        /\ Step(p, SyncLoop(g, 1))
        /\ Same

\* const tab = await getTabById(slot.tabId)
SyncProbe(p) ==
    LET f   == calls[p]
        tab == GetTabById(tabs, f.newSlots[f.slotId].tabId)
        g   == Called(f, "tabs.get", "sync_find")
    IN  /\ f.pc = "sync_probe"
        /\ IF tab # NoTabObject THEN Step(p, SyncLoop(g, f.slotId + 1)) ELSE Step(p, g)
        /\ Same

\* const tabByUrl = await findTabByUrl(slot.url); the record healed
SyncFind(p) ==
    LET f == calls[p]
        g == Called(f, "tabs.query", "sync_probe")
    IN  /\ f.pc = "sync_find"
        /\ \E tabByUrl \in FindTabByUrl(tabs, f.newSlots[f.slotId].url) :
              IF tabByUrl # NoTabObject /\ tabByUrl.id # NoTab
              THEN Step(p, SyncLoop([g EXCEPT !.newSlots[f.slotId] =
                                          [@ EXCEPT !.tabId = tabByUrl.id,
                                                    !.windowId = tabByUrl.windowId],
                                        !.needsUpdate = TRUE], f.slotId + 1))
              ELSE Step(p, SyncLoop(g, f.slotId + 1))
        /\ Same

\* update('harpoon', ...): get
SyncUpdateGet(p) ==
    LET f == calls[p]
    IN  /\ f.pc = "sync_upd_get"
        /\ Step(p, Called([f EXCEPT !.current = harpoon], "storage.get", "sync_upd_set"))
        /\ Same

\* update('harpoon', (state) => ({ ...state, slots: newSlots })): set
SyncUpdateSet(p) ==
    LET f == calls[p]
    IN  /\ f.pc = "sync_upd_set"
        /\ harpoon' = SyncUpdater(Loaded(f, harpoon), f.newSlots)
        /\ Step(p, Return(Called(f, "storage.set", "done"), "void"))
        /\ UNCHANGED <<reopenClosed, tabs, nextTabId, activeTab>>
        /\ UNCHANGED <<keyVars, last, feedVars, wsVars>>

\* removal, reordering and resizing of what markToSlot recorded, one call at
\* a time
RegistryNext ==
    \/ StartMark(1) \/ MarkTab(1) \/ MarkGet(1) \/ MarkSet(1)
    \/ StartRemove(1) \/ StartRemoveByUrl(1) \/ StartClearAll(1) \/ StartSetMaxSlots(1)
    \/ StartSwapSlots(1) \/ StartMoveSlot(1) \/ UpdateGet(1) \/ UpdateSet(1)
    \/ OpenTab

RegistrySpec == HarpoonInit /\ [][RegistryNext]_vars

\* syncWithTabs after marks, while the user closes, reopens and navigates tabs
SyncNext ==
    \/ StartMark(1) \/ MarkTab(1) \/ MarkGet(1) \/ MarkSet(1)
    \/ StartSyncWithTabs(1) \/ SyncGet(1) \/ SyncProbe(1) \/ SyncFind(1)
    \/ SyncUpdateGet(1) \/ SyncUpdateSet(1)
    \/ OpenTab \/ CloseTab \/ NavigateTab \/ ImportData

SyncSpec == HarpoonInit /\ [][SyncNext]_vars

-----------------------------------------------------------------------------
(* markToSlot on every kind of tab: pages, browser-internal pages and tabs  *)
(* whose URL the extension cannot read, in registries of any length.        *)

OtherUrls == {"chrome://settings", "chrome-extension://id/popup.html", ""}

OpenOtherTab ==
    \E url \in OtherUrls :
        /\ Quiet
        /\ nextTabId <= MaxTabs
        /\ tabs' = AddTab(tabs, nextTabId, NewTab(nextTabId, url))
        /\ nextTabId' = nextTabId + 1
        /\ activeTab' = nextTabId
        /\ Retire
        /\ UNCHANGED <<harpoon, reopenClosed>>
        /\ UNCHANGED <<keyVars, last, feedVars, wsVars>>

MarkNext ==
    \/ StartMark(1) \/ MarkTab(1) \/ MarkGet(1) \/ MarkSet(1)
    \/ StartSetMaxSlots(1) \/ UpdateGet(1) \/ UpdateSet(1)
    \/ OpenTab \/ OpenOtherTab

MarkSpec == HarpoonInit /\ [][MarkNext]_vars

MarkDone(p) == calls[p].op = "mark" /\ calls[p].pc = "done"

\* the tab markToSlot resolves: the explicit tab id's, else the active tab
Resolved(p) ==
    IF calls[p].tabArg # NoTab
    THEN GetTabById(calls[p].before.tabs, calls[p].tabArg)
    ELSE GetActiveTab(calls[p].before.tabs, calls[p].before.activeTab)

Allowed(tab) ==
    /\ tab # NoTabObject
    /\ tab.id # NoTab
    /\ tab.url # ""
    /\ tab.url \notin {"chrome://settings", "chrome-extension://id/popup.html"}

\* C15: successful mark.  When the resolved tab has an id and an allowed URL,
\* markToSlot(k) returns the record, the store was written, slot k holds a
\* record with id k and the tab's URL, tab id and window id whatever it held
\* before, and every other slot and maxSlots are as they were.
C15_MarkSucceeds ==
    \A p \in Callers :
        LET f == calls[p]
            b == f.before
            k == f.slotId
            t == Resolved(p)
        IN  (MarkDone(p) /\ Allowed(t)) =>
              /\ f.result = "slot"
              /\ Made(p, "storage.set")
              /\ k \in 1..Len(harpoon.slots)
              /\ harpoon.slots[k] # NoSlot
              /\ harpoon.slots[k].id = k
              /\ harpoon.slots[k].url = t.url
              /\ harpoon.slots[k].tabId = t.id
              /\ harpoon.slots[k].windowId = t.windowId
              /\ \A i \in 1..Len(harpoon.slots) :
                    i # k => harpoon.slots[i] = SlotAt(b.harpoon.slots, i)
              /\ Len(harpoon.slots) = Max(Len(b.harpoon.slots), k)
              /\ harpoon.maxSlots = b.harpoon.maxSlots

\* a mark of slot 2 that replaced the record of another tab while slot 1
\* held a record
C15_Witness ==
    \E p \in Callers :
        /\ MarkDone(p)
        /\ Allowed(Resolved(p))
        /\ calls[p].slotId = 2
        /\ SlotBefore(p) # NoSlot
        /\ SlotBefore(p).tabId # Resolved(p).id
        /\ SlotBefore(p).url # Resolved(p).url
        /\ calls[p].before.harpoon.slots[1] # NoSlot
        /\ harpoon.slots[2].tabId = Resolved(p).id

\* C16: invalid mark.  When the resolved tab does not exist, has no id, has no
\* URL or is at a chrome:// or chrome-extension:// URL, markToSlot returns
\* null and the store is not written; an explicit tab id is the only tab
\* looked at, so one that does not resolve fails without a query for the
\* active tab.
C16_MarkInvalid ==
    \A p \in Callers :
        LET f == calls[p]
            b == f.before
        IN  MarkDone(p) =>
              /\ ~Allowed(Resolved(p)) =>
                    /\ f.result = "null"
                    /\ ~Made(p, "storage.set")
                    /\ harpoon = b.harpoon
              /\ f.tabArg # NoTab => ~Made(p, "tabs.query")

\* a mark with an id no tab has while the active tab was a markable page
C16_Witness ==
    \E p \in Callers :
        /\ MarkDone(p)
        /\ calls[p].tabArg # NoTab
        /\ calls[p].tabArg \notin DOMAIN calls[p].before.tabs
        /\ Allowed(GetActiveTab(calls[p].before.tabs, calls[p].before.activeTab))
        /\ calls[p].result = "null"
        /\ harpoon = calls[p].before.harpoon

\* the other invalid marks: a browser-internal page, a tab without URL
C16_WitnessInternal ==
    \E p \in Callers :
        /\ MarkDone(p)
        /\ Resolved(p) # NoTabObject
        /\ Resolved(p).url = "chrome-extension://id/popup.html"
        /\ calls[p].result = "null"

C16_WitnessNoUrl ==
    \E p \in Callers :
        /\ MarkDone(p)
        /\ Resolved(p) # NoTabObject
        /\ Resolved(p).url = ""
        /\ calls[p].result = "null"

-----------------------------------------------------------------------------
(* removeFromSlot, removeByUrl and swapSlots: claims C17 to C19, over       *)
(* RegistrySpec.                                                            *)

Done(p, op) == calls[p].op = op /\ calls[p].pc = "done"

Occupied(slots) == {i \in 1..Len(slots) : slots[i] # NoSlot}

\* C17: removeFromSlot(k) with k inside the array leaves slot k empty and
\* every other slot, maxSlots and the array length as they were; when slot k
\* was already empty the registry is unchanged, and removing again changes
\* nothing.
C17_RemoveClearsSlot ==
    \A p \in Callers :
        LET f == calls[p]
            b == f.before
            k == f.slotId
        IN  (Done(p, "remove") /\ k \in 1..Len(b.harpoon.slots)) =>
              /\ f.result = "void"
              /\ Len(harpoon.slots) = Len(b.harpoon.slots)
              /\ harpoon.maxSlots = b.harpoon.maxSlots
              /\ harpoon.slots[k] = NoSlot
              /\ \A i \in 1..Len(harpoon.slots) :
                    i # k => harpoon.slots[i] = b.harpoon.slots[i]
              /\ b.harpoon.slots[k] = NoSlot => harpoon = b.harpoon
              /\ RemoveUpdater(harpoon, k) = harpoon

\* a record removed from slot 1 while slot 2 kept its own
C17_Witness ==
    \E p \in Callers :
        /\ Done(p, "remove")
        /\ calls[p].slotId = 1
        /\ Occupied(calls[p].before.harpoon.slots) = {1, 2}
        /\ Occupied(harpoon.slots) = {2}

\* a remove of a slot that was empty already
C17_WitnessEmpty ==
    \E p \in Callers :
        /\ Done(p, "remove")
        /\ calls[p].slotId = 1
        /\ Occupied(calls[p].before.harpoon.slots) = {2}
        /\ Made(p, "storage.set")

\* C18: removeByUrl(u) empties every slot whose record has URL u, all of
\* them, and leaves every other record, every position, the array length and
\* maxSlots as they were.
C18_RemoveByUrlClearsAll ==
    \A p \in Callers :
        LET f == calls[p]
            b == f.before
        IN  Done(p, "removeByUrl") =>
              /\ Len(harpoon.slots) = Len(b.harpoon.slots)
              /\ harpoon.maxSlots = b.harpoon.maxSlots
              /\ \A i \in 1..Len(harpoon.slots) :
                    harpoon.slots[i] =
                        IF b.harpoon.slots[i] # NoSlot /\ b.harpoon.slots[i].url = f.url
                        THEN NoSlot
                        ELSE b.harpoon.slots[i]

\* two records of the same URL, both removed
C18_Witness ==
    \E p \in Callers :
        /\ Done(p, "removeByUrl")
        /\ Occupied(calls[p].before.harpoon.slots) = {1, 2}
        /\ calls[p].before.harpoon.slots[1].url = calls[p].url
        /\ calls[p].before.harpoon.slots[2].url = calls[p].url
        /\ Occupied(harpoon.slots) = {}

\* a record of another URL that stayed while its neighbour was removed
C18_WitnessOther ==
    \E p \in Callers :
        /\ Done(p, "removeByUrl")
        /\ Occupied(calls[p].before.harpoon.slots) = {1, 2}
        /\ Occupied(harpoon.slots) = {2}

\* C19: swap is self-inverse.  After swapSlots(a, b) with a and b in
\* 1..maxSlots, swapping the same two slots again gives the registry the
\* first swap started from: same array length, same records, same ids, same
\* positions.
C19_SwapSelfInverse ==
    \A p \in Callers :
        LET f == calls[p]
            b == f.before
        IN  (/\ Done(p, "swap")
             /\ f.slotId \in 1..b.harpoon.maxSlots
             /\ f.other \in 1..b.harpoon.maxSlots) =>
              SwapUpdater(harpoon, f.slotId, f.other) = b.harpoon

\* C19, for slots inside the stored array: when a and b are both at most the
\* array's length, swapping again gives back the registry the first swap
\* started from; otherwise the records and ids come back, in an array
\* lengthened to the larger index.
C19_SwapSelfInverseInsideArray ==
    \A p \in Callers :
        LET f  == calls[p]
            b  == f.before
            hi == Max(f.slotId, f.other)
        IN  Done(p, "swap") =>
              /\ hi <= Len(b.harpoon.slots) =>
                    SwapUpdater(harpoon, f.slotId, f.other) = b.harpoon
              /\ SwapUpdater(harpoon, f.slotId, f.other) =
                    [b.harpoon EXCEPT !.slots = Padded(b.harpoon.slots, hi)]

\* two different records exchanged, each renumbered
C19_Witness ==
    \E p \in Callers :
        /\ Done(p, "swap")
        /\ calls[p].slotId = 1
        /\ calls[p].other = 2
        /\ Occupied(calls[p].before.harpoon.slots) = {1, 2}
        /\ calls[p].before.harpoon.slots[1].url # calls[p].before.harpoon.slots[2].url
        /\ harpoon.slots[1] = [calls[p].before.harpoon.slots[2] EXCEPT !.id = 1]
        /\ harpoon.slots[2] = [calls[p].before.harpoon.slots[1] EXCEPT !.id = 2]

\* a swap with slot 2 in a registry of maxSlots 2 whose array had one element
C19_WitnessShortArray ==
    \E p \in Callers :
        /\ Done(p, "swap")
        /\ calls[p].before.harpoon.maxSlots = 2
        /\ Len(calls[p].before.harpoon.slots) = 1
        /\ calls[p].before.harpoon.slots[1] # NoSlot
        /\ calls[p].slotId = 1
        /\ calls[p].other = 2
        /\ Len(harpoon.slots) = 2

-----------------------------------------------------------------------------
(* syncWithTabs: claim C20, over SyncSpec.                                  *)

\* a record with a stored tab id that no tab of tb has
Stale(slot, tb) == slot # NoSlot /\ slot.tabId # NoTab /\ slot.tabId \notin DOMAIN tb

\* C20: reconcile.  After syncWithTabs, a record whose stored tab id did not
\* resolve while a live tab had its URL names such a tab and its window; a
\* record whose stored tab id did not resolve and whose URL no live tab had is
\* as it was, stale id kept; a record whose stored tab id resolved is as it
\* was; empty slots, records without a stored tab id, the array length and
\* maxSlots are as they were.
C20_Reconcile ==
    \A p \in Callers :
        LET f == calls[p]
            b == f.before
        IN  Done(p, "sync") =>
              /\ Len(harpoon.slots) = Len(b.harpoon.slots)
              /\ harpoon.maxSlots = b.harpoon.maxSlots
              /\ \A i \in 1..Len(b.harpoon.slots) :
                    LET slot == b.harpoon.slots[i]
                    IN  IF Stale(slot, b.tabs) /\ LiveAt(b.tabs, slot.url) # {}
                        THEN \E t \in LiveAt(b.tabs, slot.url) :
                                harpoon.slots[i] = [slot EXCEPT !.tabId = t,
                                                                !.windowId = b.tabs[t].windowId]
                        ELSE harpoon.slots[i] = slot

\* one sync that healed slot 1 and left slot 2 stale: the tab both records
\* named was closed, and a tab at slot 1's URL only was open
C20_Witness ==
    \E p \in Callers :
        /\ Done(p, "sync")
        /\ Occupied(calls[p].before.harpoon.slots) = {1, 2}
        /\ Stale(calls[p].before.harpoon.slots[1], calls[p].before.tabs)
        /\ Stale(calls[p].before.harpoon.slots[2], calls[p].before.tabs)
        /\ LiveAt(calls[p].before.tabs, calls[p].before.harpoon.slots[2].url) = {}
        /\ harpoon.slots[1].tabId \in DOMAIN tabs
        /\ harpoon.slots[1].windowId # calls[p].before.harpoon.slots[1].windowId
        /\ harpoon.slots[2] = calls[p].before.harpoon.slots[2]

\* a sync over a record whose tab was still open
C20_WitnessLive ==
    \E p \in Callers :
        /\ Done(p, "sync")
        /\ Occupied(harpoon.slots) # {}
        /\ \A i \in Occupied(harpoon.slots) : harpoon.slots[i].tabId \in DOMAIN calls[p].before.tabs
        /\ ~Made(p, "storage.set")
        /\ Made(p, "tabs.get")

\* a sync that passed over an imported record without tab id although a tab
\* at its URL was open
C20_WitnessNoTabId ==
    \E p \in Callers :
        /\ Done(p, "sync")
        /\ calls[p].before.harpoon.slots[1] # NoSlot
        /\ calls[p].before.harpoon.slots[1].tabId = NoTab
        /\ LiveAt(calls[p].before.tabs, calls[p].before.harpoon.slots[1].url) # {}
        /\ harpoon = calls[p].before.harpoon

-----------------------------------------------------------------------------
(* Two calls in flight.  No operation holds a lock across an await, so a    *)
(* second call, and the user's tab events, may run at every await of the    *)
(* first.                                                                   *)

Racers == {3, 4}

\* a call may start where none was made yet
Free(p) == calls[p].pc = "idle"

\* the one tab open when the race begins, and its record in slot k
FirstTab == AddTab(<<>>, 1, NewTab(1, UrlA))
FirstRecord(k) == SlotOf(k, TabObject(FirstTab, 1))

\* registries earlier calls left behind: nothing marked, the tab marked to
\* slot 1, to slot 2, to both, and the array cut to one slot by
\* setMaxSlots(0) before setMaxSlots(11)
RaceRegistries ==
    LET one  == MarkUpdater(DEFAULT_HARPOON_STATE, 1, FirstRecord(1))
        two  == MarkUpdater(DEFAULT_HARPOON_STATE, 2, FirstRecord(2))
        both == MarkUpdater(one, 2, FirstRecord(2))
        cut  == SetMaxSlotsUpdater(SetMaxSlotsUpdater(both, 0), 11)
    IN  {DEFAULT_HARPOON_STATE, one, two, both, cut}

\* two calls, each made once, from a browser with one tab open
RaceInit ==
    /\ InitMatcherAside
    /\ InitFeedIdle
    /\ InitWorkspacesIdle
    /\ harpoon \in RaceRegistries
    /\ reopenClosed \in BOOLEAN
    /\ tabs = FirstTab
    /\ nextTabId = 2
    /\ activeTab = 1
    /\ calls = [p \in Callers |-> Idle]

TabCloses ==
    \E id \in DOMAIN tabs :
        /\ tabs' = RemoveTab(tabs, id)
        /\ IF activeTab # id THEN activeTab' = activeTab
           ELSE IF DOMAIN tabs = {id} THEN activeTab' = NoTab
           ELSE activeTab' \in (DOMAIN tabs) \ {id}
        /\ UNCHANGED <<harpoon, reopenClosed, nextTabId, calls>>
        /\ UNCHANGED <<keyVars, last, feedVars, wsVars>>

RaceCall(p) ==
    /\ Free(p)
    /\ \/ CallMark(p) \/ CallJump(p) \/ CallSyncWithTabs(p)
       \/ CallRemove(p) \/ CallRemoveByUrl(p) \/ CallClearAll(p)
       \/ CallSetMaxSlots(p) \/ CallSwapSlots(p) \/ CallMoveSlot(p)

RaceStep(p) ==
    \/ MarkTab(p) \/ MarkGet(p) \/ MarkSet(p)
    \/ JumpGet(p) \/ JumpProbe(p) \/ JumpFind(p) \/ JumpHealGet(p) \/ JumpHealSet(p)
    \/ JumpActivate(p) \/ JumpFocus(p) \/ JumpSettings(p) \/ JumpCreate(p)
    \/ JumpReopenGet(p) \/ JumpReopenSet(p)
    \/ SyncGet(p) \/ SyncProbe(p) \/ SyncFind(p) \/ SyncUpdateGet(p) \/ SyncUpdateSet(p)
    \/ UpdateGet(p) \/ UpdateSet(p)

RaceNext ==
    \/ \E p \in Racers : RaceCall(p)
    \/ \E p \in Racers : RaceStep(p)
    \/ TabCloses

RaceSpec == RaceInit /\ [][RaceNext]_vars

\* C14: slot-index invariant.  In every state, whatever calls of markToSlot,
\* removeFromSlot, removeByUrl, swapSlots, moveSlot, jumpToSlot, syncWithTabs,
\* setMaxSlots and clearAll ran or are running, interleaved at their awaits,
\* every record in the stored array is at the position its id names:
\* slots[p].id = p + 1 for the 0-based position p.
C14_SlotIndexInvariant ==
    \A i \in 1..Len(harpoon.slots) :
        harpoon.slots[i] # NoSlot => harpoon.slots[i].id = i

\* a call about to write from a registry that another call has replaced since
\* it was read, with records stored
C14_Witness ==
    \E p \in Racers, q \in Racers :
        /\ p # q
        /\ calls[p].pc \in ReadsCurrent
        /\ calls[p].current # harpoon
        /\ calls[q].pc = "done"
        /\ Occupied(calls[p].current.slots) # {}
        /\ Occupied(harpoon.slots) # {}
        /\ \E i \in Occupied(harpoon.slots) : i \notin Occupied(calls[p].current.slots)

-----------------------------------------------------------------------------
(* syncWithTabs twice in succession: the second call starts when the first  *)
(* has returned and nothing else has happened since.                        *)

StartFirstMark == calls[2].pc = "idle" /\ StartMark(1)

StartFirstSync == calls[2].pc = "idle" /\ StartSyncWithTabs(1)

StartSyncAgain ==
    /\ calls[1].op = "sync" /\ calls[1].pc = "done"
    /\ calls[2].pc = "idle"
    /\ CallSyncWithTabs(2)

SyncTwiceNext ==
    \/ StartFirstMark \/ MarkTab(1) \/ MarkGet(1) \/ MarkSet(1)
    \/ StartFirstSync \/ SyncGet(1) \/ SyncProbe(1) \/ SyncFind(1)
    \/ SyncUpdateGet(1) \/ SyncUpdateSet(1)
    \/ StartSyncAgain \/ SyncGet(2) \/ SyncProbe(2) \/ SyncFind(2)
    \/ SyncUpdateGet(2) \/ SyncUpdateSet(2)
    \/ OpenTab \/ CloseTab \/ NavigateTab \/ ImportData

SyncTwiceSpec == HarpoonInit /\ [][SyncTwiceNext]_vars

\* the call made a store write
Wrote(p) == \E i \in 1..Len(calls[p].trace) : calls[p].trace[i] = "storage.set"

SyncedTwice == Done(1, "sync") /\ Done(2, "sync")

\* C21: reconcile is idempotent.  When syncWithTabs has run twice in
\* succession with the same tabs open, the registry after the second call is
\* the registry after the first, and the second call made no store write.
C21_SyncIdempotent ==
    SyncedTwice =>
        /\ calls[2].before.tabs = tabs
        /\ harpoon = calls[2].before.harpoon
        /\ ~Wrote(2)

\* the first call healed a record and wrote; the second found a record whose
\* tab is gone and whose URL no tab shows
C21_Witness ==
    /\ SyncedTwice
    /\ Wrote(1)
    /\ calls[1].before.harpoon # harpoon
    /\ \E i \in Occupied(harpoon.slots) : Stale(harpoon.slots[i], tabs)
    /\ Len(calls[2].trace) > 1

-----------------------------------------------------------------------------
(* Slot indices and the array's length against maxSlots *)

\* the slot indices a call was given
IndicesOf(f) ==
    IF f.op \in {"swap", "move"} THEN {f.slotId, f.other} ELSE {f.slotId}

Indexed(p) ==
    /\ calls[p].pc = "done"
    /\ calls[p].op \in {"mark", "jump", "remove", "swap", "move"}

\* every index of the call was a slot of the registry it started from
InRange(p) == IndicesOf(calls[p]) \subseteq 1..calls[p].before.harpoon.maxSlots

\* C22: a call of mark, jump, remove, swap or move with a slot index outside
\* 1..maxSlots fails with InvalidSlotIndex and leaves the registry unchanged;
\* with indices in range remove, swap and move return without error.
C22_OutOfRangeRejected ==
    \A p \in Observed :
        Indexed(p) =>
            IF InRange(p)
            THEN calls[p].op \in {"remove", "swap", "move"} => calls[p].result = "void"
            ELSE /\ calls[p].result = "InvalidSlotIndex"
                 /\ harpoon = calls[p].before.harpoon

\* markToSlot(2) on a registry of one slot stored a record in position 2
C22_WitnessOutOfRange ==
    /\ Indexed(1) /\ ~InRange(1)
    /\ calls[1].op = "mark"
    /\ calls[1].before.harpoon.maxSlots = 1
    /\ calls[1].result = "slot"
    /\ Len(harpoon.slots) = 2
    /\ harpoon.slots[2] # NoSlot

\* C23: fixed capacity.  In every state reached from the default registry by
\* the registry operations the slots array has exactly maxSlots elements and
\* maxSlots is within 1..10.
C23_FixedCapacity ==
    /\ Len(harpoon.slots) = harpoon.maxSlots
    /\ harpoon.maxSlots \in 1..10

\* the part of C23 that holds: maxSlots stays within 1..10
C23_MaxSlotsBounded == harpoon.maxSlots \in 1..10

\* setMaxSlots(11) on the default registry: ten slots allowed, five stored
C23_WitnessShort ==
    /\ Done(1, "setMaxSlots")
    /\ calls[1].other = 11
    /\ calls[1].before.harpoon = DEFAULT_HARPOON_STATE
    /\ harpoon.maxSlots = 10
    /\ Len(harpoon.slots) = 5

\* markToSlot(2) on a registry of one slot: one slot allowed, two stored
C23_WitnessLong ==
    /\ Done(1, "mark")
    /\ harpoon.maxSlots = 1
    /\ Len(harpoon.slots) = 2

-----------------------------------------------------------------------------
(* From the page to the background.  The content script hands every action  *)
(* the matcher emits to handleAction, which sends a KEYBIND_ACTION message;  *)
(* the popup sends HARPOON_JUMP, and handleMessage also takes HARPOON_MARK   *)
(* and HARPOON_REMOVE from any page of the extension.                       *)
(* The background's listener runs handleMessage on each message, one        *)
(* message at a time here.                                                  *)

\* DEFAULT_KEYBINDS, cut down to the keys typed here: a jump binding and a
\* mark or remove binding
DispatchTables ==
    { <<[sequence |-> <<"Space", "Space">>, action |-> jump],
        [sequence |-> <<"Space", "h">>,     action |-> other]>> :
          jump \in {"harpoon1", "harpoon2"}, other \in {"harpoonAdd", "harpoonRemove"} }

PopupMessages == {"HARPOON_MARK", "HARPOON_JUMP", "HARPOON_REMOVE"}

\* a message the listener has received and handleMessage has not yet switched on
Message(type, action, slotId) ==
    [Idle EXCEPT !.op = "handleMessage", !.pc = "msg", !.type = type,
                 !.action = action, !.slotId = slotId]

\* document keydown listener: keybindManager.handleKeyDown(event), whose
\* onAction is handleAction: chrome.runtime.sendMessage KEYBIND_ACTION
PageKeyDown ==
    \E event \in KeyEvents :
        LET r == HandleKeyDown(Matcher, keybinds, enabled, event, PageBody)
        IN  /\ Quiet
            /\ Install(r.m)
            /\ elapsed' = IF Extended(Matcher, r.m) THEN 0 ELSE elapsed
            /\ IF r.emitted # <<>>
               THEN calls' = [calls EXCEPT ![1] = Message("KEYBIND_ACTION", r.emitted[1], 0)]
               ELSE calls' = calls
            /\ UNCHANGED <<keybinds, enabled, last, feedVars, wsVars>>
            /\ UNCHANGED <<harpoon, reopenClosed, tabs, nextTabId, activeTab>>

\* an extension page: chrome.runtime.sendMessage({type, payload: {slotId}})
PopupSend ==
    \E type \in PopupMessages, slotId \in SlotArgs :
        /\ Quiet
        /\ (type = "HARPOON_JUMP" /\ WouldCreate(slotId)) => nextTabId \in TabIds
        /\ calls' = [calls EXCEPT ![1] = Message(type, "", slotId)]
        /\ Same

\* the frame of the harpoon function handleMessage awaits
Dispatched(f, g) == [g EXCEPT !.type = f.type, !.action = f.action]

\* handleMessage: switch (message.type)
HandleMessage(p) ==
    LET f == calls[p]
    IN  /\ f.pc = "msg"
        /\ CASE f.type = "HARPOON_MARK" ->
                  Step(p, Dispatched(f, Begin("mark", "mark_tab", f.slotId, NoTab)))
             [] f.type = "HARPOON_JUMP" ->
                  Step(p, Dispatched(f, Begin("jump", "jump_get", f.slotId, NoTab)))
             [] f.type = "HARPOON_REMOVE" ->
                  Step(p, Dispatched(f, BeginUpdate("remove", f.slotId, 0, "")))
             [] OTHER ->
                  Step(p, Return(f, "null"))
        /\ Same

DispatchInit ==
    /\ currentSequence = <<>>
    /\ sequenceTimeout = NoTimeout
    /\ keybinds \in DispatchTables
    /\ enabled = TRUE
    /\ timers = <<>>
    /\ shown = <<>>
    /\ elapsed = 0
    /\ last = [op |-> "new", event |-> NoEvent, target |-> PageBody,
               before |-> FreshMatcher, wasEnabled |-> TRUE,
               consumed |-> FALSE, emitted |-> <<>>]
    /\ InitFeedIdle
    /\ InitWorkspacesIdle
    /\ InitHarpoonIdle

\* what the background does once a message is in
BackgroundStep ==
    \/ HandleMessage(1)
    \/ MarkTab(1) \/ MarkGet(1) \/ MarkSet(1)
    \/ JumpGet(1) \/ JumpProbe(1) \/ JumpFind(1)
    \/ JumpHealGet(1) \/ JumpHealSet(1) \/ JumpActivate(1) \/ JumpFocus(1)
    \/ JumpSettings(1) \/ JumpCreate(1) \/ JumpReopenGet(1) \/ JumpReopenSet(1)
    \/ UpdateGet(1) \/ UpdateSet(1)

DispatchNext ==
    \/ PageKeyDown
    \/ PopupSend
    \/ HandleMessage(1)
    \/ MarkTab(1) \/ MarkGet(1) \/ MarkSet(1)
    \/ JumpGet(1) \/ JumpProbe(1) \/ JumpFind(1)
    \/ JumpHealGet(1) \/ JumpHealSet(1) \/ JumpActivate(1) \/ JumpFocus(1)
    \/ JumpSettings(1) \/ JumpCreate(1) \/ JumpReopenGet(1) \/ JumpReopenSet(1)
    \/ UpdateGet(1) \/ UpdateSet(1)
    \/ OpenTab \/ CloseTab

DispatchSpec == DispatchInit /\ [][DispatchNext]_vars

\* the event loop runs every handler that can continue
DispatchFairSpec == DispatchSpec /\ WF_vars(BackgroundStep)

\* a KEYBIND_ACTION message carrying the action has reached the background
Sent(action) ==
    \E p \in Observed :
        /\ calls[p].pc = "msg"
        /\ calls[p].type = "KEYBIND_ACTION"
        /\ calls[p].action = action

\* a call of the harpoon function op on slot slotId has been made
Invoked(op, slotIds) ==
    \E p \in Observed : calls[p].op = op /\ calls[p].slotId \in slotIds

\* C24: every action the matcher emits is sent to the background and
\* dispatched there: harpoonN leads to a call of jumpToSlot(N), harpoonAdd to
\* a call of markToSlot and harpoonRemove to a call of removeFromSlot.
C24_ActionsDispatched ==
    /\ Sent("harpoon1") ~> Invoked("jump", {1})
    /\ Sent("harpoon2") ~> Invoked("jump", {2})
    /\ Sent("harpoonAdd") ~> Invoked("mark", SlotArgs)
    /\ Sent("harpoonRemove") ~> Invoked("remove", SlotArgs)

\* handleMessage returned null for the jump action Space Space emitted
C24_WitnessDropped ==
    /\ calls[1].type = "KEYBIND_ACTION"
    /\ calls[1].action = "harpoon1"
    /\ calls[1].pc = "done"
    /\ calls[1].op = "handleMessage"
    /\ calls[1].result = "null"
    /\ currentSequence = <<>>

\* the HARPOON_ messages are dispatched to their harpoon function
C24_PopupDispatched ==
    \A p \in Observed :
        (calls[p].pc = "done" /\ calls[p].type \in PopupMessages) =>
            calls[p].op = CASE calls[p].type = "HARPOON_MARK" -> "mark"
                            [] calls[p].type = "HARPOON_JUMP" -> "jump"
                            [] OTHER -> "remove"

-----------------------------------------------------------------------------
(* Two mutations in flight at once: markToSlot as caller 1 and             *)
(* removeFromSlot as caller 2, each made once, interleaved at every await,  *)
(* from registries earlier marks stored.                                    *)

LostUpdateRegistries ==
    LET one  == MarkUpdater(DEFAULT_HARPOON_STATE, 1, FirstRecord(1))
        two  == MarkUpdater(DEFAULT_HARPOON_STATE, 2, FirstRecord(2))
        both == MarkUpdater(one, 2, FirstRecord(2))
    IN  {DEFAULT_HARPOON_STATE, one, two, both}

LostUpdateInit ==
    /\ InitMatcherAside
    /\ InitFeedIdle
    /\ InitWorkspacesIdle
    /\ harpoon \in LostUpdateRegistries
    /\ reopenClosed = TRUE
    /\ tabs = AddTab(FirstTab, 2, NewTab(2, UrlB))
    /\ nextTabId = 3
    /\ activeTab \in {1, 2}
    /\ calls = [p \in Callers |-> Idle]

MarkCalled == Free(1) /\ CallMark(1)

RemoveCalled == Free(2) /\ CallRemove(2)

LostUpdateNext ==
    \/ MarkCalled \/ MarkTab(1) \/ MarkGet(1) \/ MarkSet(1)
    \/ RemoveCalled \/ UpdateGet(2) \/ UpdateSet(2)

LostUpdateSpec == LostUpdateInit /\ [][LostUpdateNext]_vars

\* both calls have returned, the mark with its record
BothDone ==
    /\ MarkDone(1) /\ calls[1].result = "slot"
    /\ Done(2, "remove")
    /\ calls[1].slotId # calls[2].slotId

\* the registry a call loaded, with the one slot it was asked to change
WithSlot(state, slotId, slot) ==
    [state EXCEPT !.slots =
        [i \in 1..Max(Len(state.slots), IF slot = NoSlot THEN 0 ELSE slotId) |->
            IF i = slotId THEN slot
            ELSE IF i <= Len(state.slots) THEN state.slots[i] ELSE NoSlot]]

MarkWritten == WithSlot(calls[1].current, calls[1].slotId, calls[1].slot)

RemoveWritten == WithSlot(calls[2].current, calls[2].slotId, NoSlot)

\* the slot of the mark holds its record; the slot of the remove is empty
MarkKept == SlotAt(harpoon.slots, calls[1].slotId) = calls[1].slot
RemoveKept == SlotAt(harpoon.slots, calls[2].slotId) = NoSlot

C30_WitnessMarkLost ==
    /\ BothDone
    /\ harpoon = RemoveWritten
    /\ RemoveKept
    /\ ~MarkKept

-----------------------------------------------------------------------------
(* syncWithTabs with a mutation in flight.  The tab the records name was    *)
(* closed and opened again under another id, so syncWithTabs (caller 1)     *)
(* heals and writes; markToSlot or removeFromSlot (caller 2) is made once   *)
(* and stores its registry while syncWithTabs is suspended in a probe.      *)

\* the tab at UrlA, opened again as tab 2
ReopenedTab == AddTab(<<>>, 2, NewTab(2, UrlA))

\* registries whose records name tab 1, which is closed
StaleRegistries == LostUpdateRegistries \ {DEFAULT_HARPOON_STATE}

SyncRaceInit ==
    /\ InitMatcherAside
    /\ InitFeedIdle
    /\ InitWorkspacesIdle
    /\ harpoon \in StaleRegistries
    /\ reopenClosed = TRUE
    /\ tabs = ReopenedTab
    /\ nextTabId = 3
    /\ activeTab = 2
    /\ calls = [p \in Callers |-> Idle]

SyncCalled == Free(1) /\ CallSyncWithTabs(1)

\* syncWithTabs is suspended in getTabById or findTabByUrl
Probing == calls[1].pc \in {"sync_probe", "sync_find"}

MarkDuringSync == Free(2) /\ CallMark(2)

RemoveDuringSync == Free(2) /\ CallRemove(2)

\* the mutation's storage.set, while syncWithTabs is suspended in a probe
MarkSetWhileProbing == Probing /\ MarkSet(2)

RemoveSetWhileProbing == Probing /\ UpdateSet(2)

SyncRaceNext ==
    \/ SyncCalled \/ SyncGet(1) \/ SyncProbe(1) \/ SyncFind(1)
    \/ SyncUpdateGet(1) \/ SyncUpdateSet(1)
    \/ MarkDuringSync \/ MarkTab(2) \/ MarkGet(2) \/ MarkSetWhileProbing
    \/ RemoveDuringSync \/ UpdateGet(2) \/ RemoveSetWhileProbing

SyncRaceSpec == SyncRaceInit /\ [][SyncRaceNext]_vars

\* syncWithTabs returned, and the mutation had stored its registry while
\* syncWithTabs was probing
SyncOverlapped ==
    /\ Done(1, "sync")
    /\ calls[2].pc = "done"
    /\ calls[2].op \in {"mark", "remove"}
    /\ "storage.set" \in {calls[2].trace[i] : i \in 1..Len(calls[2].trace)}

\* what the mutation stored is in the registry: the record of the mark in
\* its slot, nothing in the slot of the remove
MutationPresent ==
    IF calls[2].op = "mark"
    THEN SlotAt(harpoon.slots, calls[2].slotId) = calls[2].slot
    ELSE SlotAt(harpoon.slots, calls[2].slotId) = NoSlot

\* the URLs of the records, slot by slot
UrlsOf(slots) == [i \in 1..Len(slots) |-> slots[i].url]

\* C31: reconcile preserves concurrent mutations.  If a markToSlot or a
\* removeFromSlot stored its registry while syncWithTabs was suspended
\* probing tabs, then after syncWithTabs finished the mutation's effect is
\* still in the stored registry: the marked record is in its slot, the
\* removed slot is empty.
C31_SyncPreservesMutations == SyncOverlapped => MutationPresent

\* syncWithTabs returned after a markToSlot stored a record in an empty slot
\* during its probes, and the slot is empty again
C31_WitnessMarkLost ==
    /\ SyncOverlapped
    /\ calls[2].op = "mark"
    /\ SlotAt(calls[1].state.slots, calls[2].slotId) = NoSlot
    /\ SlotAt(calls[1].current.slots, calls[2].slotId) = calls[2].slot
    /\ SlotAt(harpoon.slots, calls[2].slotId) = NoSlot

\* syncWithTabs returned after a removeFromSlot emptied a slot during its
\* probes, and the record is stored again, healed
C31_WitnessRemoveUndone ==
    /\ SyncOverlapped
    /\ calls[2].op = "remove"
    /\ SlotAt(calls[1].current.slots, calls[2].slotId) = NoSlot
    /\ SlotAt(harpoon.slots, calls[2].slotId) # NoSlot
    /\ SlotAt(harpoon.slots, calls[2].slotId).tabId = 2

\* what does hold of syncWithTabs: the array it writes differs from the one
\* it read at its start only in the tabId and windowId of records, never in
\* which slots are occupied nor in a record's URL, title or id
C31_HealsOnlyHandles ==
    \A p \in {1} :
        calls[p].op = "sync" /\ calls[p].pc # "sync_get" =>
            /\ Len(calls[p].newSlots) = Len(calls[p].state.slots)
            /\ \A i \in 1..Len(calls[p].newSlots) :
                  calls[p].newSlots[i] =
                      IF calls[p].state.slots[i] = NoSlot THEN NoSlot
                      ELSE [calls[p].state.slots[i] EXCEPT
                                !.tabId = calls[p].newSlots[i].tabId,
                                !.windowId = calls[p].newSlots[i].windowId]

\* the second half as stated, of the stored registry: the step in which
\* syncWithTabs writes leaves the occupied slots and every record's URL as
\* the store held them
C31_WriteKeepsOccupancy ==
    [][calls[1].pc = "sync_upd_set" /\ calls'[1].pc = "done" =>
          /\ Occupied(harpoon'.slots) = Occupied(harpoon.slots)
          /\ UrlsOf(harpoon'.slots) = UrlsOf(harpoon.slots)]_vars

-----------------------------------------------------------------------------
(* jumpToSlot with a removal in flight.  jumpToSlot (caller 1) and          *)
(* removeFromSlot (caller 2) are made once each and interleave at every     *)
(* await; the records name tab 1, which is closed, and their page is open   *)
(* again as tab 2 or not open at all.                                       *)

JumpRaceInit ==
    /\ InitMatcherAside
    /\ InitFeedIdle
    /\ InitWorkspacesIdle
    /\ harpoon \in StaleRegistries
    /\ reopenClosed \in BOOLEAN
    /\ tabs \in {ReopenedTab, <<>>}
    /\ nextTabId = IF tabs = <<>> THEN 2 ELSE 3
    /\ activeTab = IF tabs = <<>> THEN NoTab ELSE 2
    /\ calls = [p \in Callers |-> Idle]

JumpCalled ==
    /\ Free(1)
    /\ \E slotId \in SlotArgs :
          /\ Step(1, Begin("jump", "jump_get", slotId, NoTab))
          /\ Same

JumpRaceNext ==
    \/ JumpCalled \/ JumpGet(1) \/ JumpProbe(1) \/ JumpFind(1)
    \/ JumpHealGet(1) \/ JumpHealSet(1) \/ JumpActivate(1) \/ JumpFocus(1)
    \/ JumpSettings(1) \/ JumpCreate(1) \/ JumpReopenGet(1) \/ JumpReopenSet(1)
    \/ RemoveCalled \/ UpdateGet(2) \/ UpdateSet(2)

JumpRaceSpec == JumpRaceInit /\ [][JumpRaceNext]_vars

\* registry b is registry a but for the tabId and windowId of slot k: the
\* same maxSlots, the same array length, the same slots occupied, every
\* record's id, URL and title the same, and no handle but slot k's changed
SameButHandles(a, b, k) ==
    /\ a.maxSlots = b.maxSlots
    /\ Len(a.slots) = Len(b.slots)
    /\ \A i \in 1..Len(a.slots) :
          IF a.slots[i] = NoSlot THEN b.slots[i] = NoSlot
          ELSE IF i = k
          THEN b.slots[i] = [a.slots[i] EXCEPT !.tabId = b.slots[i].tabId,
                                               !.windowId = b.slots[i].windowId]
          ELSE b.slots[i] = a.slots[i]

\* a step of jumpToSlot
JumpSteps == calls[1].op = "jump" /\ InFlight(1) /\ calls'[1] # calls[1]

\* C32: jump frame.  No step of jumpToSlot(k) changes which slots the stored
\* registry has occupied, nor a record's URL, title or id, nor maxSlots; it
\* writes at most the tabId and windowId of slot k, and where the store holds
\* no record in slot k when the write is made, the write creates none.
C32_JumpFrame ==
    [][JumpSteps => SameButHandles(harpoon, harpoon', calls[1].slotId)]_vars

\* jumpToSlot(k) returned true after removeFromSlot(k) emptied slot k, and
\* slot k holds its record again: the registry jumpToSlot wrote was computed
\* from the one its update had loaded before the removal was stored
C32_WitnessRecreated ==
    /\ Done(1, "jump") /\ calls[1].result = "true"
    /\ Done(2, "remove") /\ calls[2].slotId = calls[1].slotId
    /\ SlotAt(calls[2].current.slots, calls[2].slotId) # NoSlot
    /\ SlotAt(calls[1].current.slots, calls[1].slotId) # NoSlot
    /\ SlotAt(harpoon.slots, calls[1].slotId) # NoSlot

\* what does hold at every write of jumpToSlot: the registry written is the
\* registry its update loaded, but for the handles of slot k
C32_FrameOfLoaded ==
    [][JumpSteps /\ harpoon' # harpoon =>
          SameButHandles(calls[1].current, harpoon', calls[1].slotId)]_vars

\* the removal was stored before the update of jumpToSlot loaded the
\* registry: the write creates no record in slot k
C32_WitnessNotRecreated ==
    /\ Done(1, "jump") /\ calls[1].result = "true"
    /\ Done(2, "remove") /\ calls[2].slotId = calls[1].slotId
    /\ calls[1].slot # NoSlot
    /\ "storage.set" \in {calls[1].trace[i] : i \in 1..Len(calls[1].trace)}
    /\ SlotAt(calls[1].current.slots, calls[1].slotId) = NoSlot
    /\ SlotAt(harpoon.slots, calls[1].slotId) = NoSlot

-----------------------------------------------------------------------------
(* jumpToSlot after the marked tab navigated: stated over HarpoonSpec,      *)
(* where the user navigates tabs between calls and tabs.onUpdated changes   *)
(* nothing in the registry.                                                 *)

\* the tab the call left active is at the URL of the slot it was asked for
AtSlotUrl(p) ==
    /\ activeTab \in DOMAIN tabs
    /\ tabs[activeTab].url = SlotBefore(p).url

\* C33: locator identity on jump.  Whenever jumpToSlot(k) returns true, the
\* tab it activated or created is at the URL slot k stores; a stored tab id
\* whose tab exists but has navigated to another URL is not activated as the
\* pinned target.
C33_LocatorIdentity ==
    \A p \in Callers :
        (JumpDone(p) /\ calls[p].result = "true") => AtSlotUrl(p)

\* jumpToSlot returned true with the tab of the stored id active, and that
\* tab was at another URL than the slot's when the call began
C33_WitnessNavigated ==
    \E p \in Callers :
        /\ JumpDone(p) /\ calls[p].result = "true"
        /\ SlotBefore(p).tabId \in DOMAIN calls[p].before.tabs
        /\ calls[p].before.tabs[SlotBefore(p).tabId].url # SlotBefore(p).url
        /\ activeTab = SlotBefore(p).tabId
        /\ tabs[activeTab].url # SlotBefore(p).url
        /\ ~Made(p, "tabs.query")

\* what does hold: a jump that did not find the stored tab id leaves a tab at
\* the slot's URL active, found by URL or created
C33_IdentityWithoutLiveHandle ==
    \A p \in Callers :
        (/\ JumpDone(p) /\ calls[p].result = "true"
         /\ SlotBefore(p).tabId \notin DOMAIN calls[p].before.tabs) => AtSlotUrl(p)

\* a tab was created at the slot's URL
C33_WitnessCreated ==
    \E p \in Callers :
        /\ JumpDone(p) /\ calls[p].result = "true"
        /\ Made(p, "tabs.create")
        /\ AtSlotUrl(p)

-----------------------------------------------------------------------------
(* markToNextAvailable and the harpoon-mark command, one call at a time,    *)
(* on pages, browser-internal pages and with no tab open, in registries     *)
(* that setMaxSlots resized and removeFromSlot leaves holes in.             *)

\* the loop of markToNextAvailable: the first i < state.maxSlots with
\* !state.slots[i], as the 1-based slot number; 0 when the loop finds none
FirstEmpty(state) ==
    LET free == {i \in 1..state.maxSlots : SlotAt(state.slots, i) = NoSlot}
    IN  IF free = {} THEN 0 ELSE CHOOSE i \in free : \A j \in free : i <= j

CallMarkToNextAvailable(p) ==
    Step(p, Begin("markNext", "next_get", 0, NoTab)) /\ Same

StartMarkToNextAvailable(p) == Quiet /\ CallMarkToNextAvailable(p)

\* const state = await getHarpoonState(); the loop; markToSlot(i + 1) called
\* or null returned
NextGet(p) ==
    LET f == calls[p]
        k == FirstEmpty(harpoon)
        g == Called([f EXCEPT !.state = harpoon, !.slotId = k, !.other = k],
                    "storage.get", "mark_tab")
    IN  /\ f.pc = "next_get"
        /\ IF k = 0 THEN Step(p, Return(g, "null")) ELSE Step(p, g)
        /\ Same

\* what markToNextAvailable returns once markToSlot(i + 1) has: return i + 1,
\* whatever markToSlot returned; 0 is null
NextAvailableResult(f) == f.other

\* commands.onCommand, case 'harpoon-mark': await markToSlot(1)
CommandHarpoonMark(p) ==
    /\ Quiet
    /\ Step(p, [Begin("mark", "mark_tab", 1, NoTab) EXCEPT
                    !.type = "command", !.action = "harpoon-mark"])
    /\ Same

\* registries setMaxSlots left: the default of 5 slots, and the array cut to
\* one slot and to two
ResizedRegistries ==
    {DEFAULT_HARPOON_STATE, SetMaxSlotsUpdater(DEFAULT_HARPOON_STATE, 0),
     SetMaxSlotsUpdater(DEFAULT_HARPOON_STATE, 2)}

NextAvailableInit ==
    /\ InitMatcherAside
    /\ InitFeedIdle
    /\ InitWorkspacesIdle
    /\ harpoon \in ResizedRegistries
    /\ reopenClosed = TRUE
    /\ tabs = <<>>
    /\ nextTabId = 1
    /\ activeTab = NoTab
    /\ calls = [p \in Callers |-> Idle]

NextAvailableNext ==
    \/ StartMarkToNextAvailable(1) \/ NextGet(1)
    \/ CommandHarpoonMark(1)
    \/ MarkTab(1) \/ MarkGet(1) \/ MarkSet(1)
    \/ StartRemove(1) \/ UpdateGet(1) \/ UpdateSet(1)
    \/ OpenTab \/ OpenOtherTab

NextAvailableSpec == NextAvailableInit /\ [][NextAvailableNext]_vars

\* markToNextAvailable has returned
NextDone(p) == calls[p].op = "markNext" /\ calls[p].pc = "done"

\* the active tab when the call began
ActiveBefore(p) == GetActiveTab(calls[p].before.tabs, calls[p].before.activeTab)

\* slot k of the stored registry holds the record of the tab that was active
\* when call p began
Recorded(p, k) ==
    /\ SlotAt(harpoon.slots, k) # NoSlot
    /\ SlotAt(harpoon.slots, k) = SlotOf(k, ActiveBefore(p))

\* C34: markToNextAvailable returns a slot number k only if the active tab
\* was recorded in slot k, k being the lowest empty slot within 1..maxSlots
\* of the registry it started from; it returns null, leaving the registry
\* unchanged, exactly when no slot within 1..maxSlots is empty.
C34_NextAvailable ==
    \A p \in Callers :
        LET f == calls[p]
            b == f.before
            r == NextAvailableResult(f)
        IN  NextDone(p) =>
              /\ r # 0 => /\ r = FirstEmpty(b.harpoon)
                          /\ Allowed(ActiveBefore(p))
                          /\ Recorded(p, r)
              /\ r = 0 <=> FirstEmpty(b.harpoon) = 0
              /\ r = 0 => harpoon = b.harpoon

\* markToNextAvailable returned slot 2 with a browser-internal page active,
\* and nothing was recorded: the registry is as it was
C34_WitnessNothingRecorded ==
    \E p \in Callers :
        /\ NextDone(p)
        /\ NextAvailableResult(calls[p]) = 2
        /\ calls[p].result = "null"
        /\ IsInternalUrl(ActiveBefore(p).url)
        /\ harpoon = calls[p].before.harpoon
        /\ SlotAt(harpoon.slots, 2) = NoSlot

\* what does hold: the number returned is the lowest empty slot, null exactly
\* when there is none, and a markable active tab is recorded there, every
\* other slot as it was
C34_LowestEmptySlot ==
    \A p \in Callers :
        LET f == calls[p]
            b == f.before
            r == NextAvailableResult(f)
        IN  NextDone(p) =>
              /\ r = FirstEmpty(b.harpoon)
              /\ r = 0 => harpoon = b.harpoon /\ ~Made(p, "storage.set")
              /\ (r # 0 /\ Allowed(ActiveBefore(p))) =>
                    /\ Recorded(p, r)
                    /\ harpoon = MarkUpdater(b.harpoon, r, SlotOf(r, ActiveBefore(p)))
              /\ (r # 0 /\ ~Allowed(ActiveBefore(p))) => harpoon = b.harpoon

\* null returned from a registry of two slots, both occupied
C34_WitnessFull ==
    \E p \in Callers :
        /\ NextDone(p)
        /\ NextAvailableResult(calls[p]) = 0
        /\ calls[p].before.harpoon.maxSlots = 2
        /\ Occupied(harpoon.slots) = {1, 2}

\* slot 1 filled again after a removal, slot 2 occupied
C34_WitnessHole ==
    \E p \in Callers :
        /\ NextDone(p)
        /\ NextAvailableResult(calls[p]) = 1
        /\ SlotAt(calls[p].before.harpoon.slots, 2) # NoSlot
        /\ Recorded(p, 1)

\* the harpoon-mark command has run to its end
CommandDone(p) ==
    /\ MarkDone(p)
    /\ calls[p].type = "command"
    /\ calls[p].action = "harpoon-mark"

\* C35: the harpoon-mark command marks the current tab to the next available
\* (lowest empty) slot of the registry, and never overwrites an occupied slot
\* while an empty slot exists.
C35_CommandMarksNextAvailable ==
    \A p \in Callers :
        LET b == calls[p].before
            k == FirstEmpty(b.harpoon)
        IN  (CommandDone(p) /\ Allowed(ActiveBefore(p)) /\ k # 0) =>
              /\ Recorded(p, k)
              /\ \A i \in Occupied(b.harpoon.slots) :
                    SlotAt(harpoon.slots, i) = b.harpoon.slots[i]

\* the command replaced the record of another page in slot 1 while slot 2
\* was empty
C35_WitnessOverwritten ==
    \E p \in Callers :
        /\ CommandDone(p)
        /\ Allowed(ActiveBefore(p))
        /\ SlotBefore(p) # NoSlot
        /\ SlotBefore(p).url # ActiveBefore(p).url
        /\ FirstEmpty(calls[p].before.harpoon) = 2
        /\ harpoon.slots[1].url = ActiveBefore(p).url
        /\ SlotAt(harpoon.slots, 2) = NoSlot

\* what does hold: the command is markToSlot(1) of the active tab
C35_CommandMarksSlotOne ==
    \A p \in Callers :
        (CommandDone(p) /\ Allowed(ActiveBefore(p))) =>
            /\ calls[p].slotId = 1
            /\ Recorded(p, 1)
            /\ harpoon = MarkUpdater(calls[p].before.harpoon, 1, SlotOf(1, ActiveBefore(p)))

-----------------------------------------------------------------------------
(* The matcher disabled and enabled again (DISABLE_KEYBINDS and             *)
(* ENABLE_KEYBINDS reach setEnabled through the page's message handler),    *)
(* stated over HotSwapSpec.                                                 *)

\* nothing buffered and no timeout pending
Cleared ==
    /\ currentSequence = <<>>
    /\ sequenceTimeout = NoTimeout
    /\ DOMAIN timers = {}

\* C36: disable.  setEnabled(false) leaves the buffer empty and no timeout
\* pending; while the matcher is disabled every keystroke is reported as not
\* consumed, emits no action and leaves the matcher as it was, the buffer
\* empty; and setEnabled(true) on a disabled matcher leaves the matcher in
\* its idle state, the state it was constructed in.
C36_Disable ==
    /\ (last.op = "setEnabled" /\ ~enabled) => Cleared
    /\ ~enabled => Cleared
    /\ (last.op = "keydown" /\ ~last.wasEnabled) =>
          /\ ~last.consumed
          /\ last.emitted = <<>>
          /\ Matcher = last.before
          /\ currentSequence = <<>>
    /\ (last.op = "setEnabled" /\ ~last.wasEnabled /\ enabled) => Matcher = FreshMatcher

\* setEnabled(false) with a sequence in progress and its timeout pending
C36_Witness ==
    /\ last.op = "setEnabled"
    /\ ~enabled
    /\ last.wasEnabled
    /\ last.before.currentSequence # <<>>
    /\ last.before.sequenceTimeout # NoTimeout
    /\ Cleared

\* the leader key on the page body while disabled
C36_WitnessKeyIgnored ==
    /\ last.op = "keydown"
    /\ ~last.wasEnabled
    /\ GetKeyName(last.event) = "Space"
    /\ last.target = PageBody
    /\ ~last.consumed

\* setEnabled(true) on a disabled matcher
C36_WitnessEnabledAgain ==
    /\ last.op = "setEnabled"
    /\ ~last.wasEnabled
    /\ enabled
    /\ Matcher = FreshMatcher

-----------------------------------------------------------------------------
(* Keys without a normalised name, stated over HotSwapSpec. *)

\* a key that is not the Space bar, not Escape and not a single letter or
\* digit: a modifier, a punctuation key
Unrecognised(event) ==
    /\ event.code # "Space"
    /\ event.key # "Escape"
    /\ event.key \notin AlnumChar

\* C37: unrecognised keys are transparent.  A keydown whose key has no
\* normalised name is reported as not consumed, emits nothing and leaves the
\* buffer, the pending timeout and the time left on it exactly as they were,
\* with the buffer empty and with a sequence in progress: it neither extends,
\* resets nor refreshes the sequence.
C37_UnrecognisedTransparent ==
    (last.op = "keydown" /\ Unrecognised(last.event)) =>
        /\ ~last.consumed
        /\ last.emitted = <<>>
        /\ Matcher = last.before
        /\ currentSequence = last.before.currentSequence
        /\ sequenceTimeout = last.before.sequenceTimeout
        /\ timers = last.before.timers

\* a slash on the page body with a sequence in progress, its timeout partly
\* run down
C37_Witness ==
    /\ last.op = "keydown"
    /\ last.wasEnabled
    /\ last.event.key = "/"
    /\ last.target = PageBody
    /\ currentSequence # <<>>
    /\ sequenceTimeout # NoTimeout
    /\ timers[sequenceTimeout] < SEQUENCE_TIMEOUT
    /\ elapsed > 0

\* a bare Shift with the buffer empty
C37_WitnessIdle ==
    /\ last.op = "keydown"
    /\ last.wasEnabled
    /\ last.event.key = "Shift"
    /\ last.target = PageBody
    /\ currentSequence = <<>>

-----------------------------------------------------------------------------
(* Workspace functions, one step per await.  createWorkspace,               *)
(* renameWorkspace and deleteWorkspace are one update('workspaces', ...)    *)
(* each; assignTabToWorkspace asks the browser for the tab first;           *)
(* switchWorkspace reads the state and the tabs, groups the tabs and then   *)
(* writes activeWorkspaceId.                                                *)

WsStep(p, f) == wsCalls' = [wsCalls EXCEPT ![p] = f]

WsBegin(op, pc, workspaceId) ==
    [WsIdle EXCEPT !.op = op, !.pc = pc, !.workspaceId = workspaceId,
                   !.before = workspaces]

\* a call returns: its locals are gone
WsReturn(f) == [f EXCEPT !.pc = "done", !.state = WsIdle.state, !.current = WsIdle.current]

WsInFlight(p) == wsCalls[p].pc \notin {"idle", "done"}
WsQuiet == \A p \in WsCallers : ~WsInFlight(p)

\* what a step of a workspace call leaves alone
WsSame == UNCHANGED <<keyVars, last, feedVars, harpoonVars>>

\* createWorkspace(name): id: generateId()
CallCreateWorkspace(p) ==
    \E name \in {CreatedName} :
        /\ generated < MaxWorkspaces
        /\ generated' = generated + 1
        /\ WsStep(p, [WsBegin("create", "ws_upd_get", GenerateId(generated + 1))
                          EXCEPT !.name = name])
        /\ UNCHANGED workspaces
        /\ WsSame

CallRenameWorkspace(p) ==
    \E workspaceId \in WorkspaceIdArgs, newName \in WorkspaceNames :
        /\ WsStep(p, [WsBegin("rename", "ws_upd_get", workspaceId) EXCEPT !.name = newName])
        /\ UNCHANGED <<workspaces, generated>>
        /\ WsSame

CallDeleteWorkspace(p) ==
    \E workspaceId \in WorkspaceIdArgs :
        /\ WsStep(p, WsBegin("delete", "ws_upd_get", workspaceId))
        /\ UNCHANGED <<workspaces, generated>>
        /\ WsSame

CallAssignTabToWorkspace(p) ==
    \E tabId \in TabIds, workspaceId \in WorkspaceIdArgs :
        /\ WsStep(p, [WsBegin("assign", "ws_assign_tab", workspaceId) EXCEPT !.tabId = tabId])
        /\ UNCHANGED <<workspaces, generated>>
        /\ WsSame

CallSwitchWorkspace(p) ==
    \E workspaceId \in WorkspaceIdArgs \cup {NULL} :
        /\ WsStep(p, WsBegin("switch", "ws_switch_get", workspaceId))
        /\ UNCHANGED <<workspaces, generated>>
        /\ WsSame

\* const tab = await chrome.tabs.get(tabId); tabUrl = tab.url || ''; the
\* return when the call throws
AssignTab(p) ==
    LET f == wsCalls[p]
    IN  /\ f.pc = "ws_assign_tab"
        /\ IF f.tabId \in DOMAIN tabs
           THEN WsStep(p, [f EXCEPT !.tabUrl = tabs[f.tabId].url, !.pc = "ws_upd_get"])
           ELSE WsStep(p, WsReturn(f))
        /\ UNCHANGED <<workspaces, generated>>
        /\ WsSame

\* const state = await getWorkspaceState()
SwitchGet(p) ==
    LET f == wsCalls[p]
    IN  /\ f.pc = "ws_switch_get"
        /\ WsStep(p, [f EXCEPT !.state = workspaces, !.pc = "ws_switch_tabs"])
        /\ UNCHANGED <<workspaces, generated>>
        /\ WsSame

\* the open tabs the state read maps to one of its workspaces
GroupedTabs(state) ==
    {t \in DOMAIN tabs \cap DOMAIN state.tabToWorkspace :
        FindWorkspace(state.workspaces, state.tabToWorkspace[t]) # 0}

\* const allTabs = await getAllTabs(); for null the update follows; else the
\* target is looked up in the state read, the return when it is not found,
\* and the loop over the workspaces with tabs
SwitchTabs(p) ==
    LET f == wsCalls[p]
    IN  /\ f.pc = "ws_switch_tabs"
        /\ IF f.workspaceId = NULL
           THEN WsStep(p, [f EXCEPT !.pc = "ws_upd_get"])
           ELSE IF FindWorkspace(f.state.workspaces, f.workspaceId) = 0
           THEN WsStep(p, WsReturn(f))
           ELSE IF GroupedTabs(f.state) # {}
           THEN WsStep(p, [f EXCEPT !.pc = "ws_switch_group"])
           ELSE WsStep(p, [f EXCEPT !.pc = "ws_upd_get"])
        /\ UNCHANGED <<workspaces, generated>>
        /\ WsSame

\* await groupTabs(...) / await setGroupCollapsed(...): the browser's tab
\* groups change, the stored state does not
SwitchGroup(p) ==
    LET f == wsCalls[p]
    IN  /\ f.pc = "ws_switch_group"
        /\ WsStep(p, [f EXCEPT !.pc = "ws_upd_get"])
        /\ UNCHANGED <<workspaces, generated>>
        /\ WsSame

\* the updater of each call
WsUpdater(f, state) ==
    CASE f.op = "create" -> CreateUpdater(state, NewWorkspace(f.workspaceId, f.name))
      [] f.op = "rename" -> RenameUpdater(state, f.workspaceId, f.name)
      [] f.op = "delete" -> DeleteUpdater(state, f.workspaceId)
      [] f.op = "assign" -> AssignUpdater(state, f.tabId, f.tabUrl, f.workspaceId)
      [] f.op = "switch" -> SwitchUpdater(state, f.workspaceId)
      [] OTHER           -> state

\* update: const current = await get(key)
WsUpdateGet(p) ==
    LET f == wsCalls[p]
    IN  /\ f.pc = "ws_upd_get"
        /\ WsStep(p, [f EXCEPT !.current = workspaces, !.pc = "ws_upd_set"])
        /\ UNCHANGED <<workspaces, generated>>
        /\ WsSame

\* update: await set(key, updater(current))
WsUpdateSet(p) ==
    LET f == wsCalls[p]
    IN  /\ f.pc = "ws_upd_set"
        /\ workspaces' = WsUpdater(f, f.current)
        /\ WsStep(p, WsReturn(f))
        /\ UNCHANGED generated
        /\ WsSame

\* one tab is open
WorkspaceInit ==
    /\ InitMatcherAside
    /\ InitFeedIdle
    /\ InitWorkspacesIdle
    /\ harpoon = DEFAULT_HARPOON_STATE
    /\ reopenClosed = TRUE
    /\ tabs = FirstTab
    /\ nextTabId = 2
    /\ activeTab = 1
    /\ calls = [p \in Callers |-> Idle]

WsStart(p) ==
    /\ WsQuiet
    /\ \/ CallCreateWorkspace(p) \/ CallRenameWorkspace(p) \/ CallDeleteWorkspace(p)
       \/ CallAssignTabToWorkspace(p) \/ CallSwitchWorkspace(p)

WsRun(p) ==
    \/ AssignTab(p) \/ SwitchGet(p) \/ SwitchTabs(p) \/ SwitchGroup(p)
    \/ WsUpdateGet(p) \/ WsUpdateSet(p)

\* the workspace functions called in any order, one call at a time
WorkspaceNext == WsStart(1) \/ WsRun(1)

WorkspaceSpec == WorkspaceInit /\ [][WorkspaceNext]_vars

WsDone(p, op) == wsCalls[p].op = op /\ wsCalls[p].pc = "done"

HasDefault(state) ==
    \E i \in 1..Len(state.workspaces) :
        state.workspaces[i].id = "default" /\ state.workspaces[i].isDefault

\* C38: the default workspace is permanent.  In every state reached from the
\* default workspace state by createWorkspace, renameWorkspace,
\* deleteWorkspace, assignTabToWorkspace and switchWorkspace the workspace
\* list contains the default workspace; and deleteWorkspace of the default
\* workspace or of an id no workspace has leaves the stored state unchanged.
C38_DefaultPermanent ==
    /\ HasDefault(workspaces)
    /\ \A p \in WsCallers :
          LET f == wsCalls[p]
          IN  (/\ WsDone(p, "delete")
               /\ \/ f.workspaceId = "default"
                  \/ FindWorkspace(f.before.workspaces, f.workspaceId) = 0)
              => workspaces = f.before

\* deleteWorkspace('default') returned with a second workspace in the list
\* and the default one still there
C38_Witness ==
    \E p \in WsCallers :
        /\ WsDone(p, "delete")
        /\ wsCalls[p].workspaceId = "default"
        /\ Len(workspaces.workspaces) = 2
        /\ workspaces.workspaces[1].isDefault

\* deleteWorkspace of an id no workspace has
C38_WitnessUnknown ==
    \E p \in WsCallers :
        /\ WsDone(p, "delete")
        /\ wsCalls[p].workspaceId = UnknownId
        /\ Len(workspaces.workspaces) = 2
        /\ workspaces.tabToWorkspace # <<>>

\* a workspace other than the default one was deleted
C38_WitnessDeleted ==
    \E p \in WsCallers :
        /\ WsDone(p, "delete")
        /\ FindWorkspace(wsCalls[p].before.workspaces, wsCalls[p].workspaceId) > 1
        /\ FindWorkspace(workspaces.workspaces, wsCalls[p].workspaceId) = 0
        /\ HasDefault(workspaces)

\* the tabs the stored state mapped to workspace w when call p began
TabsOf(p, w) ==
    {t \in DOMAIN wsCalls[p].before.tabToWorkspace :
        wsCalls[p].before.tabToWorkspace[t] = w}

\* deleteWorkspace(w) has returned, w a workspace of the list other than the
\* default one when the call began
DeletedExisting(p) ==
    LET b == wsCalls[p].before
        w == FindWorkspace(b.workspaces, wsCalls[p].workspaceId)
    IN  /\ WsDone(p, "delete")
        /\ w # 0
        /\ ~b.workspaces[w].isDefault

\* the default workspace of the stored state
DefaultWorkspace == workspaces.workspaces[FindDefault(workspaces.workspaces)]

\* C39: deleteWorkspace moves tabs to the default workspace.  After
\* deleteWorkspace(w) of an existing workspace other than the default one,
\* every tab that belonged to w is mapped to the default workspace in
\* tabToWorkspace and is listed in the default workspace's tabIds, and no
\* entry of tabToWorkspace names w.
C39_DeleteMovesTabs ==
    \A p \in WsCallers :
        DeletedExisting(p) =>
            /\ \A t \in TabsOf(p, wsCalls[p].workspaceId) :
                  /\ workspaces.tabToWorkspace[t] = "default"
                  /\ Includes(DefaultWorkspace.tabIds, t)
            /\ \A t \in DOMAIN workspaces.tabToWorkspace :
                  workspaces.tabToWorkspace[t] # wsCalls[p].workspaceId

\* the workspace tab 1 was assigned to was deleted: tab 1 is mapped to the
\* default workspace, whose tabIds and tabUrls are empty
C39_WitnessNotListed ==
    \E p \in WsCallers :
        /\ DeletedExisting(p)
        /\ 1 \in TabsOf(p, wsCalls[p].workspaceId)
        /\ workspaces.tabToWorkspace[1] = "default"
        /\ DefaultWorkspace.tabIds = <<>>
        /\ DefaultWorkspace.tabUrls = <<>>

\* what does hold: the mapping of every tab of w names the default
\* workspace, no entry names w, w is gone from the list and the other
\* workspaces, the default one included, are as they were
C39_DeleteRemaps ==
    \A p \in WsCallers :
        LET b == wsCalls[p].before
            w == wsCalls[p].workspaceId
        IN  DeletedExisting(p) =>
              /\ \A t \in TabsOf(p, w) : workspaces.tabToWorkspace[t] = "default"
              /\ \A t \in DOMAIN workspaces.tabToWorkspace :
                    workspaces.tabToWorkspace[t] # w
              /\ workspaces.workspaces = SelectSeq(b.workspaces, LAMBDA ws : ws.id # w)

-----------------------------------------------------------------------------
(* switchWorkspace with a deletion in flight: switchWorkspace (caller 1)    *)
(* and deleteWorkspace (caller 2) are made once each and interleave at      *)
(* every await, from states in which a workspace was created and tab 1      *)
(* assigned to it or not.                                                   *)

SwitchRaceStates ==
    LET created  == CreateUpdater(DEFAULT_WORKSPACE_STATE,
                                  NewWorkspace(GenerateId(1), CreatedName))
        assigned == AssignUpdater(created, 1, UrlA, GenerateId(1))
    IN  {created, assigned, SwitchUpdater(assigned, GenerateId(1))}

SwitchRaceInit ==
    /\ InitMatcherAside
    /\ InitFeedIdle
    /\ harpoon = DEFAULT_HARPOON_STATE
    /\ reopenClosed = TRUE
    /\ tabs = FirstTab
    /\ nextTabId = 2
    /\ activeTab = 1
    /\ calls = [p \in Callers |-> Idle]
    /\ workspaces \in SwitchRaceStates
    /\ generated = 1
    /\ wsCalls = [p \in WsCallers |-> WsIdle]

WsFree(p) == wsCalls[p].pc = "idle"

SwitchCalled == WsFree(1) /\ CallSwitchWorkspace(1)

DeleteCalled == WsFree(2) /\ CallDeleteWorkspace(2)

SwitchRaceNext ==
    \/ SwitchCalled \/ SwitchGet(1) \/ SwitchTabs(1) \/ SwitchGroup(1)
    \/ WsUpdateGet(1) \/ WsUpdateSet(1)
    \/ DeleteCalled \/ WsUpdateGet(2) \/ WsUpdateSet(2)

SwitchRaceSpec == SwitchRaceInit /\ [][SwitchRaceNext]_vars

\* C40: active workspace validity.  In every reachable state
\* activeWorkspaceId is null or the id of a workspace in the list, also when
\* deleteWorkspace(w) completes while switchWorkspace(w) is suspended between
\* reading the workspace state and writing activeWorkspaceId.
C40_ActiveValid ==
    \/ workspaces.activeWorkspaceId = NULL
    \/ FindWorkspace(workspaces.workspaces, workspaces.activeWorkspaceId) # 0

\* switchWorkspace(w) and deleteWorkspace(w) have both returned, w is the
\* active workspace and is not in the list
C40_WitnessDangling ==
    /\ WsDone(1, "switch")
    /\ WsDone(2, "delete")
    /\ wsCalls[1].workspaceId = wsCalls[2].workspaceId
    /\ FindWorkspace(wsCalls[1].before.workspaces, wsCalls[1].workspaceId) # 0
    /\ workspaces.activeWorkspaceId = wsCalls[1].workspaceId
    /\ FindWorkspace(workspaces.workspaces, wsCalls[1].workspaceId) = 0

\* the deleted workspace is in the list again: switchWorkspace wrote the
\* state its update had loaded before the deletion was stored
C40_WitnessUndeleted ==
    /\ WsDone(1, "switch")
    /\ WsDone(2, "delete")
    /\ wsCalls[1].workspaceId = wsCalls[2].workspaceId
    /\ wsCalls[2].workspaceId \in GeneratedIds
    /\ workspaces.activeWorkspaceId = wsCalls[1].workspaceId
    /\ FindWorkspace(workspaces.workspaces, wsCalls[1].workspaceId) # 0

\* what holds with the two calls in flight: the default workspace stays in
\* the list
C40_DefaultStays == HasDefault(workspaces)

====
